---- MODULE Spec2Model ----
(***************************************************************************)
(* Model of the Measure Tool session orchestrator                          *)
(* (src/modules/MeasureTool/MeasureToolCore): the Core object, its cursor  *)
(* poll thread, the per-monitor capture threads and overlay surfaces.      *)
(*                                                                         *)
(* The host drives Core through its public methods.  A method that spans   *)
(* several statements is modelled statement by statement (pc is the host   *)
(* thread's position), because the poll thread, the capture threads and    *)
(* the overlay surfaces run concurrently with it.                          *)
(***************************************************************************)
EXTENDS Integers, Sequences, FiniteSets, TLC

\* ------------------------------------------------------------------ bounds

\* Largest number of monitors MonitorInfo::GetMonitors may enumerate.
MaxMonitors == 2

\* Largest number of frames one capture thread acquires in one session.
MaxFrames == 2

\* Largest number of regions the user commits on one monitor in one session.
MaxMeasurements == 2

\* Largest depth to which one thread nests GPU operations.
MaxNesting == 2

\* Largest number of tasks in the PowerToys folder of the Task Scheduler.
MaxTasks == 3

\* ------------------------------------------------------- program constants

\* MeasureToolState::Global::pixelTolerance default (ToolState.h:58).
DefaultPixelTolerance == 30

\* uint8_t holds values modulo 2^8 (ToolState.h:58).
Uint8Range == 256

\* The divisor of the colour conversion (PowerToys.MeasureToolCore.cpp:70).
ColorDivisor == 255

\* ------------------------------------------------------------ value domains

Monitors == 1..MaxMonitors

\* Window handles the system may hand out: one more than can be live at once.
Handles == 1..(MaxMonitors + 1)

\* Completion callbacks are opaque to Core: the first one the host registers
\* is called c1, so that c2 is registered only in place of c1.
NoCallback == "none"
FirstCallback == "c1"
Callbacks == {"c1", "c2"}

\* OverlayBoxText{}: the empty buffer, and the buffer holding a readout
EmptyText == "empty"
ReadoutText == "readout"

NullPtr == "nullptr"
CommonStatePtr == "&_commonState"

\* a float n / 255.f, kept as the exact fraction
Div255(n) == <<n, ColorDivisor>>

\* D2D1::ColorF::OrangeRed = 0xFF4500 (ToolState.h:27)
OrangeRed == [r |-> Div255(255), g |-> Div255(69), b |-> Div255(0)]

\* static_cast<uint8_t>
ToUint8(n) == n % Uint8Range

\* ------------------------------------------------------------------ Settings

\* Settings as default-constructed, before any LoadFromFile.
DefaultSettings ==
    [ pixelTolerance |-> DefaultPixelTolerance,
      continuousCapture |-> TRUE,
      drawFeetOnCross |-> TRUE,
      perColorChannelEdgeDetection |-> FALSE,
      lineColor |-> <<255, 69, 0>> ]

\* The settings files the user may have written.
SettingsFiles ==
    { DefaultSettings,
      [ pixelTolerance |-> 255,
        continuousCapture |-> FALSE,
        drawFeetOnCross |-> FALSE,
        perColorChannelEdgeDetection |-> TRUE,
        lineColor |-> <<0, 128, 255>> ] }

\* --------------------------------------------------------------- ToolState.h

\* CommonState{} (ToolState.h:24-33)
InitCommonState ==
    [ sessionCompletedCallback |-> NoCallback,
      lineColor |-> OrangeRed,
      toolbarBoundingBox |-> [left |-> 0, top |-> 0, right |-> 0, bottom |-> 0],
      overlayBoxText |-> EmptyText,
      cursorPosSystemSpace |-> <<0, 0>>,
      closeOnOtherMonitors |-> FALSE ]

\* std::optional<D2D_POINT_2F>: no value, or one point      (ToolState.h:39)
Nullopt == <<>>
Some(point) == <<point>>

\* BoundsToolState::PerScreen{} (ToolState.h:37-41)
InitBoundsPerScreen ==
    [ currentRegionStart |-> Nullopt, measurements |-> <<>> ]

\* MeasureToolState::Global{} (ToolState.h:56-63)
InitGlobal ==
    [ pixelTolerance |-> DefaultPixelTolerance,
      continuousCapture |-> TRUE,
      drawFeetOnCross |-> TRUE,
      perColorChannelEdgeDetection |-> FALSE,
      mode |-> "Cross" ]

\* winrt::com_ptr: null, or holding a frame                 (ToolState.h:72-75)
NullComPtr == <<>>
ComPtr(frame) == <<frame>>

\* MeasureToolState::PerScreen{} (ToolState.h:65-76)
InitMeasurePerScreen ==
    [ cursorInLeftScreenHalf |-> FALSE,
      cursorInTopScreenHalf |-> FALSE,
      measuredEdges |-> [left |-> 0, top |-> 0, right |-> 0, bottom |-> 0],
      capturedScreenTexture |-> NullComPtr,
      capturedScreenBitmap |-> NullComPtr ]

\* the empty std::unordered_map<HWND, PerScreen>
EmptyMap == [w \in {} |-> 0]

\* BoundsToolState{ .commonState = p } (ToolState.h:35-45)
NewBoundsToolState(p) == [ perScreen |-> EmptyMap, commonState |-> p ]

\* MeasureToolState{} (ToolState.h:47-80)
InitMeasureToolState ==
    [ global |-> InitGlobal, perScreen |-> EmptyMap, commonState |-> NullPtr ]

\* --------------------------------------------------------------------- state

VARIABLES
    pc,                     \* position of the host thread inside Core's methods
    op,                     \* the multi-statement method the host runs or ran last
    args,                   \* arguments of StartMeasureTool
    monitors,               \* the range enumerated by MonitorInfo::GetMonitors
    idx,                    \* position of the running for loop
    mouseCaptureThread,     \* Core::_mouseCaptureThread
    screenCaptureThreads,   \* Core::_screenCaptureThreads
    stopMouseCaptureThreadSignal,
    overlayUIStates,        \* Core::_overlayUIStates
    measureToolState,       \* Core::_measureToolState
    boundsToolState,        \* Core::_boundsToolState
    commonState,            \* Core::_commonState
    settings,               \* Core::_settings
    settingsFile,           \* what the latest Settings::LoadFromFile found on disk
                            \* (the defaults while none has run)
    \* history, written by no statement of the program:
    invoked,                \* callbacks invoked since the overlay list was last cleared
    closedUnregistered,     \* the first surface of the list closed with no callback set
    lastRegistered,         \* argument of the latest SetToolCompletionEvent
    liveCaptureThreads,     \* capture threads started and not yet finished
    resetSnapshot,          \* Core's members as the latest ResetState left them
    dpiScale,               \* the latest GetDPIScaleForWindow: its query and result
    framesAcquired,         \* per window, frames its capture thread has acquired
    frameDrawn,             \* per window, the frame its surface drew last
    gpuAccessLock,          \* the process-wide lock of the GPU pipeline: owner, count
    gpuOperations,          \* per thread, the GPU operations it is inside of
    customAction            \* the installer custom action in progress, if any

coreVars ==
    << screenCaptureThreads, overlayUIStates, measureToolState, boundsToolState,
       commonState, settings >>

vars ==
    << pc, op, args, monitors, idx, mouseCaptureThread, screenCaptureThreads,
       stopMouseCaptureThreadSignal, overlayUIStates, measureToolState,
       boundsToolState, commonState, settings, settingsFile, invoked,
       closedUnregistered, lastRegistered, liveCaptureThreads,
       resetSnapshot, dpiScale, framesAcquired, frameDrawn, gpuAccessLock,
       gpuOperations, customAction >>

\* ---------------------------------------------------------------------- Init

\* ResetState has not run, or Core's members have changed since it returned
NoSnapshot == [members |-> <<>>, file |-> DefaultSettings, runs |-> 0]

\* GetDPIScaleForWindow has not been called
NoQuery == [ called |-> FALSE, ok |-> FALSE, dpi |-> 0, scale |-> <<0, 0>> ]

\* no window has a frame: frames are numbered from 1 in the order in which a
\* window's capture thread acquires them, 0 stands for none
NoFrames == [w \in Handles |-> 0]

\* The threads that work on the GPU pipeline: the capture thread and the
\* overlay surface of a window.
GpuThreads == { "capture", "surface" } \X Handles

\* no thread
NoThread == <<>>

\* std::recursive_mutex gpuAccessLock, as constructed: owned by no thread
FreeLock == [ owner |-> NoThread, count |-> 0 ]

\* no thread is inside a GPU operation
NoOperations == [ t \in GpuThreads |-> 0 ]

\* no installer custom action is in progress
NoCustomAction ==
    [ action |-> "none", pc |-> "done", initFails |-> FALSE, scenario |-> "none",
      tasks |-> <<>>, hr |-> 0, er |-> 0, i |-> 0, folder |-> {},
      folderDeleted |-> FALSE, serviceRemoved |-> FALSE, initialized |-> 0,
      finalized |-> 0, warned |-> 0, returned |-> <<>> ]

\* the host is not inside StartMeasureTool
NoArgs == [horizontal |-> FALSE, vertical |-> FALSE]

\* The state once Core::Core has returned (PowerToys.MeasureToolCore.cpp:33-39):
\* the poll thread runs, nothing else exists yet.
Init ==
    /\ pc = "idle"
    /\ op = "Core"
    /\ args = NoArgs
    /\ monitors = <<>>
    /\ idx = 1
    /\ mouseCaptureThread = [pc |-> "test", cursorPos |-> <<0, 0>>]
    /\ screenCaptureThreads = <<>>
    /\ stopMouseCaptureThreadSignal = FALSE
    /\ overlayUIStates = <<>>
    /\ measureToolState = InitMeasureToolState
    /\ boundsToolState = NewBoundsToolState(NullPtr)
    /\ commonState = InitCommonState
    /\ settings = DefaultSettings
    /\ settingsFile = DefaultSettings
    /\ invoked = <<>>
    /\ closedUnregistered = FALSE
    /\ lastRegistered = NoCallback
    /\ liveCaptureThreads = 0
    /\ resetSnapshot = NoSnapshot
    /\ dpiScale = NoQuery
    /\ framesAcquired = NoFrames
    /\ frameDrawn = NoFrames
    /\ gpuAccessLock = FreeLock
    /\ gpuOperations = NoOperations
    /\ customAction = NoCustomAction

hostVars == << pc, op, args, monitors, idx >>
pollVars == << mouseCaptureThread, stopMouseCaptureThreadSignal >>
callbackVars == << invoked, closedUnregistered, lastRegistered >>
ghostVars == << callbackVars, liveCaptureThreads, resetSnapshot >>
frameVars == << framesAcquired, frameDrawn >>
gpuVars == << gpuAccessLock, gpuOperations >>
installerVars == << customAction >>
auxVars == << dpiScale, frameVars, gpuVars, installerVars >>

\* ---------------------------------------------------------- Core::ResetState

\* where the host continues once ResetState has returned to its caller
AfterResetState(caller) ==
    CASE caller = "StartBoundsTool" -> "GetMonitors"
      [] caller = "StartMeasureTool" -> "Access"
      [] caller = "~Core" -> "UnregisterProvider"
      [] OTHER -> "idle"

\* variant: the flag is left as it is
ResetState_noStopSignal ==
    /\ pc = "ResetState"
    /\ pc' = "clearOverlays"
    /\ UNCHANGED << op, args, monitors, idx, pollVars, coreVars, settingsFile,
                    ghostVars, auxVars >>

\* variant: ResetState sets the stop signal of the poll thread as well
ResetState_stopsPollThread ==
    /\ pc = "ResetState"
    /\ commonState' = [commonState EXCEPT !.closeOnOtherMonitors = TRUE]
    /\ stopMouseCaptureThreadSignal' = TRUE
    /\ pc' = "clearOverlays"
    /\ UNCHANGED << op, args, monitors, idx, mouseCaptureThread, screenCaptureThreads,
                    overlayUIStates, measureToolState, boundsToolState, settings,
                    settingsFile, ghostVars, auxVars >>

\* _commonState.closeOnOtherMonitors = true;               (line 52)
ResetState_closeOnOtherMonitors ==
    /\ pc = "ResetState"
    /\ commonState' = [commonState EXCEPT !.closeOnOtherMonitors = TRUE]
    /\ pc' = "clearOverlays"
    /\ UNCHANGED << op, args, monitors, idx, pollVars, screenCaptureThreads,
                    overlayUIStates, measureToolState, boundsToolState, settings,
                    settingsFile, ghostVars, auxVars >>

\* variant: only the surfaces that are still active are destroyed
KeepClosedOverlays(list) == SelectSeq(list, LAMBDA o : o.state = "Closing")

\* _overlayUIStates.clear();                                (line 53)
ClearOverlays(list) == <<>>

ResetState_clearOverlays ==
    /\ pc = "clearOverlays"
    /\ overlayUIStates' = ClearOverlays(overlayUIStates)
    /\ invoked' = <<>>
    /\ closedUnregistered' = FALSE
    /\ pc' = "resetBounds"
    /\ UNCHANGED << op, args, monitors, idx, pollVars, screenCaptureThreads,
                    measureToolState, boundsToolState, commonState, settings,
                    settingsFile, lastRegistered, liveCaptureThreads,
                    resetSnapshot, auxVars >>

\* _boundsToolState = { .commonState = &_commonState };     (line 54)
ResetState_resetBounds ==
    /\ pc = "resetBounds"
    /\ boundsToolState' = NewBoundsToolState(CommonStatePtr)
    /\ pc' = "join"
    /\ idx' = 1
    /\ UNCHANGED << op, args, monitors, pollVars, screenCaptureThreads,
                    overlayUIStates, measureToolState, commonState, settings,
                    settingsFile, ghostVars, auxVars >>

\* variant: the loop gives up on a thread that has not finished
ResetState_tryJoin ==
    /\ pc = "join"
    /\ idx <= Len(screenCaptureThreads)
    /\ screenCaptureThreads' =
          [screenCaptureThreads EXCEPT ![idx].joinable =
               (@ /\ screenCaptureThreads[idx].state # "finished")]
    /\ idx' = idx + 1
    /\ UNCHANGED << pc, op, args, monitors, pollVars, overlayUIStates,
                    measureToolState, boundsToolState, commonState, settings,
                    settingsFile, ghostVars, auxVars >>

\* variant: the loop detaches each thread instead of waiting for it
ResetState_detach ==
    /\ pc = "join"
    /\ idx <= Len(screenCaptureThreads)
    /\ screenCaptureThreads' = [screenCaptureThreads EXCEPT ![idx].joinable = FALSE]
    /\ idx' = idx + 1
    /\ UNCHANGED << pc, op, args, monitors, pollVars, overlayUIStates,
                    measureToolState, boundsToolState, commonState, settings,
                    settingsFile, ghostVars, auxVars >>

\* for (auto& thread : _screenCaptureThreads)               (lines 55-61)
\*     if (thread.joinable()) thread.join();
\* join returns only once the thread has finished.
ResetState_join ==
    /\ pc = "join"
    /\ idx <= Len(screenCaptureThreads)
    /\ \/ ~screenCaptureThreads[idx].joinable
          /\ UNCHANGED screenCaptureThreads
       \/ /\ screenCaptureThreads[idx].joinable
          /\ screenCaptureThreads[idx].state = "finished"
          /\ screenCaptureThreads' =
                 [screenCaptureThreads EXCEPT ![idx].joinable = FALSE]
    /\ idx' = idx + 1
    /\ UNCHANGED << pc, op, args, monitors, pollVars, overlayUIStates,
                    measureToolState, boundsToolState, commonState, settings,
                    settingsFile, ghostVars, auxVars >>

\* variant: the thread list is left as it is
KeepThreads(list) == list

\* variant: pop_back() in place of clear()
PopBackThread(list) == IF list = <<>> THEN list ELSE SubSeq(list, 1, Len(list) - 1)

\* _screenCaptureThreads.clear();                           (line 62)
ClearThreads(list) == <<>>

ResetState_clearThreads ==
    /\ pc = "join"
    /\ idx > Len(screenCaptureThreads)
    /\ screenCaptureThreads' = ClearThreads(screenCaptureThreads)
    /\ pc' = "resetMeasure"
    /\ idx' = 1
    /\ UNCHANGED << op, args, monitors, pollVars, overlayUIStates,
                    measureToolState, boundsToolState, commonState, settings,
                    settingsFile, ghostVars, auxVars >>

\* variant: the reset measure tool state is left without its link
ResetMeasureToolStateUnlinked(s) == InitMeasureToolState

\* _measureToolState.Reset();                               (lines 63-66)
\* _measureToolState.Access([&](MeasureToolState& s) { s.commonState = &_commonState; });
ResetMeasureToolState(s) == [InitMeasureToolState EXCEPT !.commonState = CommonStatePtr]

ResetState_resetMeasure ==
    /\ pc = "resetMeasure"
    /\ measureToolState' = ResetMeasureToolState(measureToolState)
    /\ framesAcquired' = NoFrames
    /\ frameDrawn' = NoFrames
    /\ pc' = "LoadFromFile"
    /\ UNCHANGED << op, args, monitors, idx, pollVars, screenCaptureThreads,
                    overlayUIStates, boundsToolState, commonState, settings,
                    settingsFile, ghostVars, dpiScale, gpuVars, installerVars >>

\* _settings = Settings::LoadFromFile();                    (line 68)
\* The file holds whatever the user saved last.
LoadFromFile(file) == file

\* variant: the loaded settings are copied into the global sub-record at once
ResetState_loadSettingsIntoGlobal ==
    /\ pc = "LoadFromFile"
    /\ \E file \in SettingsFiles :
          /\ settingsFile' = file
          /\ settings' = LoadFromFile(file)
          /\ measureToolState' =
                [measureToolState EXCEPT
                     !.global.continuousCapture = file.continuousCapture,
                     !.global.drawFeetOnCross = file.drawFeetOnCross,
                     !.global.pixelTolerance = ToUint8(file.pixelTolerance),
                     !.global.perColorChannelEdgeDetection =
                         file.perColorChannelEdgeDetection]
    /\ pc' = "lineColor"
    /\ UNCHANGED << op, args, monitors, idx, pollVars, screenCaptureThreads,
                    overlayUIStates, boundsToolState,
                    commonState, ghostVars, auxVars >>

ResetState_loadSettings ==
    /\ pc = "LoadFromFile"
    /\ \E file \in SettingsFiles :
          /\ settingsFile' = file
          /\ settings' = LoadFromFile(file)
    /\ pc' = "lineColor"
    /\ UNCHANGED << op, args, monitors, idx, pollVars, screenCaptureThreads,
                    overlayUIStates, measureToolState, boundsToolState,
                    commonState, ghostVars, auxVars >>

\* variant: the red and blue components are taken from each other's index
FinishResetSwapped(cs, s) ==
    [cs EXCEPT !.lineColor = [ r |-> Div255(s.lineColor[3]),
                               g |-> Div255(s.lineColor[2]),
                               b |-> Div255(s.lineColor[1]) ],
               !.closeOnOtherMonitors = FALSE]

\* variant: the flag is not lowered at the end
FinishResetKeepFlag(cs, s) ==
    [cs EXCEPT !.lineColor = [ r |-> Div255(s.lineColor[1]),
                               g |-> Div255(s.lineColor[2]),
                               b |-> Div255(s.lineColor[3]) ]]

\* variant: ResetState starts from a fresh CommonState
FinishResetFreshCommonState(cs, s) ==
    [InitCommonState EXCEPT !.lineColor = [ r |-> Div255(s.lineColor[1]),
                                            g |-> Div255(s.lineColor[2]),
                                            b |-> Div255(s.lineColor[3]) ],
                            !.closeOnOtherMonitors = FALSE]

\* _commonState.lineColor.{r,g,b} = _settings.lineColor[i] / 255.f;  (lines 70-72)
\* _commonState.closeOnOtherMonitors = false;                        (line 73)
FinishReset(cs, s) ==
    [cs EXCEPT !.lineColor = [ r |-> Div255(s.lineColor[1]),
                               g |-> Div255(s.lineColor[2]),
                               b |-> Div255(s.lineColor[3]) ],
               !.closeOnOtherMonitors = FALSE]

\* how many ResetState calls in a row, reading the same settings file, have
\* run up to this one (counted to 2)
RunsInARow ==
    IF resetSnapshot.runs > 0 /\ resetSnapshot.file = settingsFile THEN 2 ELSE 1

ResetState_finish ==
    /\ pc = "lineColor"
    /\ commonState' = FinishReset(commonState, settings)
    /\ pc' = AfterResetState(op)
    /\ UNCHANGED << op, args, monitors, idx, pollVars, screenCaptureThreads,
                    overlayUIStates, measureToolState, boundsToolState, settings,
                    settingsFile, callbackVars, liveCaptureThreads, auxVars >>
    /\ resetSnapshot' = [members |-> coreVars', file |-> settingsFile,
                         runs |-> RunsInARow]

\* the host calls Core::ResetState directly
CallResetState ==
    /\ pc = "idle"
    /\ op # "~Core"
    /\ op' = "ResetState"
    /\ pc' = "ResetState"
    /\ args' = NoArgs
    /\ monitors' = <<>>
    /\ idx' = 1
    /\ UNCHANGED << pollVars, coreVars, settingsFile, ghostVars, auxVars >>

\* ------------------------------------------------------------ OverlayUIState

\* handles of the windows the listed surfaces own: none is handed out again
\* before its surface is destroyed
WindowsOf(list) == {list[k].window : k \in 1..Len(list)}

FreeHandles == Handles \ WindowsOf(overlayUIStates)

\* Handles are opaque: only their equality is observable, so the system is
\* taken to hand out the lowest free one.
NextHandle == CHOOSE h \in FreeHandles : \A g \in FreeHandles : h <= g

\* the object OverlayUIState::Create returns when it succeeds; the surface
\* renders from then on, so Created and Active are one state here
NewOverlayUIState(tool, monitor, window) ==
    [ tool |-> tool, monitor |-> monitor, window |-> window, state |-> "Active" ]

\* the per-monitor record a new surface adds to its tool state
AddPerScreen(map, window, record) ==
    [w \in DOMAIN map \cup {window} |-> IF w = window THEN record ELSE map[w]]

\* ------------------------------------------------- MonitorInfo::GetMonitors

\* the range expression of the for loops (lines 83 and 115): N monitors in
\* enumeration order, each with the outcome its OverlayUIState::Create will have
GetMonitors ==
    /\ pc = "GetMonitors"
    /\ \E n \in 0..MaxMonitors :
         \E failing \in SUBSET (1..n) :
            monitors' = [k \in 1..n |-> [id |-> k, createFails |-> k \in failing]]
    /\ idx' = 1
    /\ pc' = IF op = "StartBoundsTool" THEN "boundsLoop" ELSE "measureLoop"
    /\ UNCHANGED << op, args, pollVars, coreVars, settingsFile, ghostVars, auxVars >>

\* ------------------------------------------------------ Core::StartBoundsTool

CallStartBoundsTool ==
    /\ pc = "idle"
    /\ op # "~Core"
    /\ op' = "StartBoundsTool"
    /\ pc' = "ResetState"
    /\ args' = NoArgs
    /\ monitors' = <<>>
    /\ idx' = 1
    /\ UNCHANGED << pollVars, coreVars, settingsFile, ghostVars, auxVars >>

\* variant: the surface is inserted at the front of the list
PushFront(list, overlayUI) == <<overlayUI>> \o list

\* _overlayUIStates.push_back(std::move(overlayUI));        (lines 91 and 127)
PushBack(list, overlayUI) == Append(list, overlayUI)

\* one iteration of the loop of lines 83-92
StartBoundsTool_iterate ==
    /\ pc = "boundsLoop"
    /\ idx <= Len(monitors)
    /\ IF monitors[idx].createFails
         THEN UNCHANGED << overlayUIStates, boundsToolState >>       \* continue;
         ELSE LET window == NextHandle IN
                /\ overlayUIStates' =
                      PushBack(overlayUIStates,
                               NewOverlayUIState("bounds", monitors[idx].id, window))
                /\ boundsToolState' =
                      [boundsToolState EXCEPT !.perScreen =
                           AddPerScreen(@, window, InitBoundsPerScreen)]
    /\ idx' = idx + 1
    /\ resetSnapshot' = NoSnapshot
    /\ UNCHANGED << pc, op, args, monitors, pollVars, screenCaptureThreads,
                    measureToolState, commonState, settings, settingsFile,
                    callbackVars, liveCaptureThreads, auxVars >>

\* Trace::BoundsToolActivated(); and return                 (lines 93-94)
StartBoundsTool_return ==
    /\ pc = "boundsLoop"
    /\ idx > Len(monitors)
    /\ pc' = "idle"
    /\ UNCHANGED << op, args, monitors, idx, pollVars, coreVars, settingsFile, ghostVars,
                    auxVars >>

\* ----------------------------------------------------- Core::StartMeasureTool

CallStartMeasureTool ==
    /\ pc = "idle"
    /\ \E horizontal, vertical \in BOOLEAN :
          args' = [horizontal |-> horizontal, vertical |-> vertical]
    /\ op # "~Core"
    /\ op' = "StartMeasureTool"
    /\ pc' = "ResetState"
    /\ monitors' = <<>>
    /\ idx' = 1
    /\ UNCHANGED << pollVars, coreVars, settingsFile, ghostVars, auxVars >>

\* variant: the else branch belongs to the inner test
DeriveModeDangling(horizontal, vertical) ==
    IF horizontal
      THEN (IF vertical THEN "Cross" ELSE "Vertical")
      ELSE "Horizontal"

\* lines 101-104
DeriveMode(horizontal, vertical) ==
    IF horizontal
      THEN (IF vertical THEN "Cross" ELSE "Horizontal")
      ELSE "Vertical"

\* variant: the pixel tolerance is not copied
SetGlobalWithoutTolerance(global, horizontal, vertical, s) ==
    [global EXCEPT !.mode =
                       IF horizontal
                         THEN (IF vertical THEN "Cross" ELSE "Horizontal")
                         ELSE "Vertical",
                   !.continuousCapture = s.continuousCapture,
                   !.drawFeetOnCross = s.drawFeetOnCross,
                   !.perColorChannelEdgeDetection = s.perColorChannelEdgeDetection]

\* the body of the Access lambda, lines 101-109
SetGlobal(global, horizontal, vertical, s) ==
    [global EXCEPT !.mode = DeriveMode(horizontal, vertical),
                   !.continuousCapture = s.continuousCapture,
                   !.drawFeetOnCross = s.drawFeetOnCross,
                   !.pixelTolerance = ToUint8(s.pixelTolerance),
                   !.perColorChannelEdgeDetection = s.perColorChannelEdgeDetection]

\* _measureToolState.Access(...)                            (lines 100-110)
StartMeasureTool_access ==
    /\ pc = "Access"
    /\ measureToolState' =
          [measureToolState EXCEPT !.global =
               SetGlobal(@, args.horizontal, args.vertical, settings)]
    /\ pc' = "GetMonitors"
    /\ resetSnapshot' = NoSnapshot
    /\ UNCHANGED << op, args, monitors, idx, pollVars, screenCaptureThreads,
                    overlayUIStates, boundsToolState, commonState, settings,
                    settingsFile, callbackVars, liveCaptureThreads, auxVars >>

\* variant: the thread is handed the monitor in place of the window handle
NewCaptureThreadOnMonitor(window, monitor) ==
    [ window |-> monitor, monitor |-> monitor, state |-> "running", joinable |-> TRUE ]

\* the std::thread StartCapturingThread returns, bound to one overlay window
NewCaptureThread(window, monitor) ==
    [ window |-> window, monitor |-> monitor, state |-> "running", joinable |-> TRUE ]

\* _screenCaptureThreads.emplace_back(StartCapturingThread(...));   (lines 123-126)
EmplaceBack(list, thread) == Append(list, thread)

\* one iteration of the loop of lines 115-128
StartMeasureTool_iterate ==
    /\ pc = "measureLoop"
    /\ idx <= Len(monitors)
    /\ IF monitors[idx].createFails
         THEN UNCHANGED << overlayUIStates, screenCaptureThreads, measureToolState,
                           liveCaptureThreads >>
         ELSE LET window == NextHandle IN
                /\ liveCaptureThreads' = liveCaptureThreads + 1
                /\ measureToolState' =
                      [measureToolState EXCEPT !.perScreen =
                           AddPerScreen(@, window, InitMeasurePerScreen)]
                /\ screenCaptureThreads' =
                      EmplaceBack(screenCaptureThreads,
                                  NewCaptureThread(window, monitors[idx].id))
                /\ overlayUIStates' =
                      PushBack(overlayUIStates,
                               NewOverlayUIState("measure", monitors[idx].id, window))
    /\ idx' = idx + 1
    /\ resetSnapshot' = NoSnapshot
    /\ UNCHANGED << pc, op, args, monitors, pollVars, boundsToolState, commonState,
                    settings, settingsFile, callbackVars, auxVars >>

\* Trace::MeasureToolActivated(); and return                (lines 129-130)
StartMeasureTool_return ==
    /\ pc = "measureLoop"
    /\ idx > Len(monitors)
    /\ pc' = "idle"
    /\ UNCHANGED << op, args, monitors, idx, pollVars, coreVars, settingsFile, ghostVars,
                    auxVars >>

\* ----------------------------------------------- Core::SetToolCompletionEvent

\* variant: a callback that is already set is kept
SetToolCompletionEventOnce(cs, sessionCompletedTrigger) ==
    IF cs.sessionCompletedCallback = NoCallback
      THEN [cs EXCEPT !.sessionCompletedCallback = sessionCompletedTrigger]
      ELSE cs

\* _commonState.sessionCompletedCallback = [trigger = ...] { trigger(); };
SetToolCompletionEvent(cs, sessionCompletedTrigger) ==
    [cs EXCEPT !.sessionCompletedCallback = sessionCompletedTrigger]

CallSetToolCompletionEvent ==
    /\ pc = "idle"
    /\ op # "~Core"
    /\ \E trigger \in Callbacks :
          /\ lastRegistered = NoCallback => trigger = FirstCallback
          /\ commonState' = SetToolCompletionEvent(commonState, trigger)
          /\ lastRegistered' = trigger
    /\ resetSnapshot' = NoSnapshot
    /\ UNCHANGED << hostVars, pollVars, screenCaptureThreads, overlayUIStates,
                    measureToolState, boundsToolState, settings, settingsFile,
                    invoked, closedUnregistered, liveCaptureThreads, auxVars >>

\* ------------------------------------------------ Core::SetToolbarBoundingBox

\* A uint32_t is kept as its two 16-bit halves, value = hi * 2^16 + lo.
Uint32(hi, lo) == [hi |-> hi, lo |-> lo]

\* static_cast<long>(uint32_t): long is 32 bits wide, two's complement, so an
\* argument with its top bit set comes out as value - 2^32
ToLong(u) ==
    IF u.hi >= 2^15
      THEN (u.hi - 2^16) * 2^16 + u.lo
      ELSE u.hi * 2^16 + u.lo

\* the argument tuples the host passes: (10, 20, 110, 60)
ToolbarArgs ==
    { << Uint32(0, 10), Uint32(0, 20), Uint32(0, 110), Uint32(0, 60) >> }

SetToolbarBoundingBox(cs, fromX, fromY, toX, toY) ==
    [cs EXCEPT !.toolbarBoundingBox =
        [ left |-> ToLong(fromX), top |-> ToLong(fromY),
          right |-> ToLong(toX), bottom |-> ToLong(toY) ]]

CallSetToolbarBoundingBox ==
    /\ pc = "idle"
    /\ op # "~Core"
    /\ \E a \in ToolbarArgs :
          commonState' = SetToolbarBoundingBox(commonState, a[1], a[2], a[3], a[4])
    /\ resetSnapshot' = NoSnapshot
    /\ UNCHANGED << hostVars, pollVars, screenCaptureThreads, overlayUIStates,
                    measureToolState, boundsToolState, settings, settingsFile,
                    callbackVars, liveCaptureThreads, auxVars >>

\* --------------------------------------------------- Core::MouseCaptureThread

\* positions GetCursorPos may report
CursorPositions == { <<0, 0>>, <<3, 4>> }

\* variant: the loop never looks at the stop signal
MouseCaptureThread_testNever ==
    /\ mouseCaptureThread.pc = "test"
    /\ \E p \in CursorPositions :
          mouseCaptureThread' = [pc |-> "publish", cursorPos |-> p]
    /\ UNCHANGED << hostVars, stopMouseCaptureThreadSignal, coreVars, settingsFile,
                    ghostVars, auxVars >>

\* while (!_stopMouseCaptureThreadSignal.is_signaled())     (line 23)
\* followed by POINT cursorPos = {}; GetCursorPos(&cursorPos);  (lines 26-27)
MouseCaptureThread_test ==
    /\ mouseCaptureThread.pc = "test"
    /\ IF stopMouseCaptureThreadSignal
         THEN mouseCaptureThread' = [pc |-> "finished", cursorPos |-> <<0, 0>>]
         ELSE \E p \in CursorPositions :
                 mouseCaptureThread' = [pc |-> "publish", cursorPos |-> p]
    /\ UNCHANGED << hostVars, stopMouseCaptureThreadSignal, coreVars, settingsFile,
                    ghostVars, auxVars >>

\* variant: the two coordinates are stored in each other's place
MouseCaptureThread_publishSwapped ==
    /\ mouseCaptureThread.pc = "publish"
    /\ commonState' =
          [commonState EXCEPT !.cursorPosSystemSpace =
               << mouseCaptureThread.cursorPos[2], mouseCaptureThread.cursorPos[1] >>]
    /\ mouseCaptureThread' = [pc |-> "test", cursorPos |-> <<0, 0>>]
    /\ resetSnapshot' = IF commonState' = commonState THEN resetSnapshot ELSE NoSnapshot
    /\ UNCHANGED << hostVars, stopMouseCaptureThreadSignal, screenCaptureThreads,
                    overlayUIStates, measureToolState, boundsToolState, settings,
                    settingsFile, callbackVars, liveCaptureThreads, auxVars >>

\* variant: the coordinates are stored one at a time, x in this step
MouseCaptureThread_publishX ==
    /\ mouseCaptureThread.pc = "publish"
    /\ commonState' =
          [commonState EXCEPT !.cursorPosSystemSpace =
               << mouseCaptureThread.cursorPos[1], commonState.cursorPosSystemSpace[2] >>]
    /\ mouseCaptureThread' = [pc |-> "test", cursorPos |-> <<0, 0>>]
    /\ resetSnapshot' = IF commonState' = commonState THEN resetSnapshot ELSE NoSnapshot
    /\ UNCHANGED << hostVars, stopMouseCaptureThreadSignal, screenCaptureThreads,
                    overlayUIStates, measureToolState, boundsToolState, settings,
                    settingsFile, callbackVars, liveCaptureThreads, auxVars >>

\* InterlockedExchange64(&_commonState.cursorPosSystemSpace, cursorPos); sleep_for
\*                                                          (lines 28-29)
MouseCaptureThread_publish ==
    /\ mouseCaptureThread.pc = "publish"
    /\ commonState' =
          [commonState EXCEPT !.cursorPosSystemSpace = mouseCaptureThread.cursorPos]
    /\ mouseCaptureThread' = [pc |-> "test", cursorPos |-> <<0, 0>>]
    /\ resetSnapshot' = IF commonState' = commonState THEN resetSnapshot ELSE NoSnapshot
    /\ UNCHANGED << hostVars, stopMouseCaptureThreadSignal, screenCaptureThreads,
                    overlayUIStates, measureToolState, boundsToolState, settings,
                    settingsFile, callbackVars, liveCaptureThreads, auxVars >>

\* ------------------------------------------------------------ capture thread

\* The stop signal a capture thread polls.  ResetState raises it (line 52)
\* before it joins the threads and lowers it (line 73) after the joins.
StopSignalled == commonState.closeOnOtherMonitors

\* a capture thread observes the stop signal and returns
CaptureThread_exit(k) ==
    /\ screenCaptureThreads[k].state = "running"
    /\ StopSignalled
    /\ screenCaptureThreads' = [screenCaptureThreads EXCEPT ![k].state = "finished"]
    /\ liveCaptureThreads' = liveCaptureThreads - 1
    /\ UNCHANGED << hostVars, pollVars, overlayUIStates, measureToolState,
                    boundsToolState, commonState, settings, settingsFile,
                    callbackVars, resetSnapshot, auxVars >>

\* ----------------------------------------------------------- overlay surface

\* a redraw tick writes the readout text
Overlay_redraw(k) ==
    /\ overlayUIStates[k].state = "Active"
    /\ commonState.overlayBoxText # ReadoutText
    /\ commonState' = [commonState EXCEPT !.overlayBoxText = ReadoutText]
    /\ UNCHANGED << hostVars, pollVars, screenCaptureThreads, overlayUIStates,
                    measureToolState, boundsToolState, settings, settingsFile,
                    ghostVars, auxVars >>

\* the first surface of the list to reach Closing wins
FirstToClose(list, k) == \A j \in 1..Len(list) : j # k => list[j].state # "Closing"

\* the callbacks a surface invokes as it reaches Closing
InvokedOnClose(list, k, cs) ==
    IF FirstToClose(list, k) /\ cs.sessionCompletedCallback # NoCallback
      THEN << cs.sessionCompletedCallback >>
      ELSE << >>

\* -> Closing: the user cancels on this surface, or the surface loses focus
\* while closeOnOtherMonitors is set
Overlay_close(k) ==
    /\ overlayUIStates[k].state = "Active"
    /\ overlayUIStates' = [overlayUIStates EXCEPT ![k].state = "Closing"]
    /\ invoked' = invoked \o InvokedOnClose(overlayUIStates, k, commonState)
    /\ closedUnregistered' =
          (closedUnregistered \/ (/\ FirstToClose(overlayUIStates, k)
                                  /\ commonState.sessionCompletedCallback = NoCallback))
    /\ UNCHANGED << hostVars, pollVars, screenCaptureThreads, measureToolState,
                    boundsToolState, commonState, settings, settingsFile,
                    lastRegistered, liveCaptureThreads, resetSnapshot,
                    auxVars >>

\* ------------------------------------------------- Core::GetDPIScaleForWindow

\* DPIAware::DEFAULT_DPI, the DPI of an unscaled monitor
DEFAULT_DPI == 96

\* what the DPI query may find for a window: no monitor DPI (the query
\* fails), or the DPI of the window's monitor at 100 %, 150 % or 200 %
QueryOutcomes ==
    { [ok |-> FALSE, dpi |-> 0] }
        \cup { [ok |-> TRUE, dpi |-> d] : d \in { DEFAULT_DPI, 144, 192 } }

\* DPIAware::GetScreenDPIForWindow(hwnd, dpi): writes the DPI it finds to its
\* second argument and leaves it alone when it finds none
GetScreenDPIForWindow(outcome, dpi) == IF outcome.ok THEN outcome.dpi ELSE dpi

\* variant: the local starts at zero
GetDPIScaleForWindowZeroInit(outcome) ==
    << GetScreenDPIForWindow(outcome, 0), DEFAULT_DPI >>

\* UINT dpi = DPIAware::DEFAULT_DPI; GetScreenDPIForWindow(handle, dpi);
\* return static_cast<float>(dpi) / DPIAware::DEFAULT_DPI;  (lines 152-154)
\* The quotient is kept as the exact fraction.
GetDPIScaleForWindow(outcome) ==
    << GetScreenDPIForWindow(outcome, DEFAULT_DPI), DEFAULT_DPI >>

\* the host asks for the scale of some window, between two other calls
GetDPIScaleForWindow_call ==
    /\ pc = "idle"
    /\ op # "~Core"
    /\ \E outcome \in QueryOutcomes :
          dpiScale' = [ called |-> TRUE, ok |-> outcome.ok, dpi |-> outcome.dpi,
                        scale |-> GetDPIScaleForWindow(outcome) ]
    /\ UNCHANGED << hostVars, pollVars, coreVars, settingsFile, ghostVars, frameVars,
                    gpuVars, installerVars >>

\* ------------------------------------------------------------- Core::~Core

CallDestructor ==
    /\ pc = "idle"
    /\ op # "~Core"
    /\ op' = "~Core"
    /\ pc' = "SetEvent"
    /\ args' = NoArgs
    /\ monitors' = <<>>
    /\ idx' = 1
    /\ UNCHANGED << pollVars, coreVars, settingsFile, ghostVars, auxVars >>

\* _stopMouseCaptureThreadSignal.SetEvent();                (line 43)
Destructor_signal ==
    /\ pc = "SetEvent"
    /\ stopMouseCaptureThreadSignal' = TRUE
    /\ pc' = "joinMouse"
    /\ UNCHANGED << op, args, monitors, idx, mouseCaptureThread, coreVars,
                    settingsFile, ghostVars, auxVars >>

\* variant: the poll thread is detached instead of joined
Destructor_detach ==
    /\ pc = "joinMouse"
    /\ pc' = "ResetState"
    /\ UNCHANGED << op, args, monitors, idx, pollVars, coreVars, settingsFile,
                    ghostVars, auxVars >>

\* _mouseCaptureThread.join();  then ResetState();          (lines 44-46)
Destructor_join ==
    /\ pc = "joinMouse"
    /\ mouseCaptureThread.pc = "finished"
    /\ pc' = "ResetState"
    /\ UNCHANGED << op, args, monitors, idx, pollVars, coreVars, settingsFile,
                    ghostVars, auxVars >>

\* Trace::UnregisterProvider(); the object is gone          (lines 47-48)
Destructor_return ==
    /\ pc = "UnregisterProvider"
    /\ pc' = "idle"
    /\ UNCHANGED << op, args, monitors, idx, pollVars, coreVars, settingsFile,
                    ghostVars, auxVars >>

\* ----------------------------------------------------------------------- Next

Next ==
    \/ CallResetState
    \/ ResetState_closeOnOtherMonitors
    \/ ResetState_clearOverlays
    \/ ResetState_resetBounds
    \/ ResetState_join
    \/ ResetState_clearThreads
    \/ ResetState_resetMeasure
    \/ ResetState_loadSettings
    \/ ResetState_finish
    \/ CallStartBoundsTool
    \/ GetMonitors
    \/ StartBoundsTool_iterate
    \/ StartBoundsTool_return
    \/ CallStartMeasureTool
    \/ StartMeasureTool_access
    \/ StartMeasureTool_iterate
    \/ StartMeasureTool_return
    \/ CallSetToolCompletionEvent
    \/ CallSetToolbarBoundingBox
    \/ MouseCaptureThread_test
    \/ MouseCaptureThread_publish
    \/ \E k \in 1..Len(screenCaptureThreads) : CaptureThread_exit(k)
    \/ \E k \in 1..Len(overlayUIStates) :
          \/ Overlay_redraw(k)
          \/ Overlay_close(k)
    \/ CallDestructor
    \/ Destructor_signal
    \/ Destructor_join
    \/ Destructor_return

Spec == Init /\ [][Next]_vars

\* a statement of ResetState
ResetStateStep ==
    \/ ResetState_closeOnOtherMonitors
    \/ ResetState_clearOverlays
    \/ ResetState_resetBounds
    \/ ResetState_join
    \/ ResetState_clearThreads
    \/ ResetState_resetMeasure
    \/ ResetState_loadSettings
    \/ ResetState_finish

\* a step of some capture thread
CaptureThreadStep == \E k \in 1..Len(screenCaptureThreads) : CaptureThread_exit(k)

\* ------------------------------------------- measure tool: captured frames

\* variant: the continuous-capture flag is not consulted
MayCaptureAlways(continuous, acquired) == ~StopSignalled

\* whether a capture thread that has acquired so many frames acquires another:
\* in continuous mode until it is told to stop, in one-shot mode once
MayCapture(continuous, acquired) ==
    IF continuous THEN ~StopSignalled ELSE acquired = 0

\* the capture thread of listed thread k acquires a frame and publishes it in
\* its window's record
CaptureThread_capture(k) ==
    /\ screenCaptureThreads[k].state = "running"
    /\ LET window == screenCaptureThreads[k].window IN
         /\ framesAcquired[window] < MaxFrames
         /\ MayCapture(measureToolState.global.continuousCapture,
                       framesAcquired[window])
         /\ framesAcquired' = [framesAcquired EXCEPT ![window] = @ + 1]
         /\ measureToolState' =
               [measureToolState EXCEPT
                   !.perScreen[window].capturedScreenTexture =
                       ComPtr(framesAcquired[window] + 1)]
    /\ resetSnapshot' = NoSnapshot
    /\ UNCHANGED << hostVars, pollVars, screenCaptureThreads, overlayUIStates,
                    boundsToolState, commonState, settings, settingsFile,
                    callbackVars, liveCaptureThreads, dpiScale, frameDrawn, gpuVars,
                    installerVars >>

\* a one-shot capture thread acquires its frame before it looks at the stop
\* signal
CaptureThread_return(k) ==
    /\ \/ measureToolState.global.continuousCapture
       \/ framesAcquired[screenCaptureThreads[k].window] > 0
    /\ CaptureThread_exit(k)

\* a redraw consumes a newly arrived raw frame and caches the bitmap made of it
ConvertFrame(record) ==
    IF record.capturedScreenTexture # NullComPtr
      THEN [record EXCEPT !.capturedScreenBitmap = record.capturedScreenTexture,
                          !.capturedScreenTexture = NullComPtr]
      ELSE record

\* a redraw tick of surface k of the measure tool: it draws the cached bitmap
Overlay_draw(k) ==
    /\ overlayUIStates[k].tool = "measure"
    /\ overlayUIStates[k].state = "Active"
    /\ LET window == overlayUIStates[k].window
           record == ConvertFrame(measureToolState.perScreen[window])
       IN  /\ record.capturedScreenBitmap # NullComPtr
           /\ measureToolState' =
                 [measureToolState EXCEPT !.perScreen[window] = record]
           /\ frameDrawn' = [frameDrawn EXCEPT ![window] = record.capturedScreenBitmap[1]]
    /\ resetSnapshot' =
          IF measureToolState' = measureToolState THEN resetSnapshot ELSE NoSnapshot
    /\ UNCHANGED << hostVars, pollVars, screenCaptureThreads, overlayUIStates,
                    boundsToolState, commonState, settings, settingsFile,
                    callbackVars, liveCaptureThreads, dpiScale, framesAcquired,
                    gpuVars, installerVars >>

\* Measure sessions started and reset by the host, with the frames their
\* capture threads acquire and their surfaces draw.
NextCapture ==
    \/ CallStartMeasureTool
    \/ CallResetState
    \/ ResetStateStep
    \/ StartMeasureTool_access
    \/ GetMonitors
    \/ StartMeasureTool_iterate
    \/ StartMeasureTool_return
    \/ \E k \in 1..Len(screenCaptureThreads) :
          \/ CaptureThread_capture(k)
          \/ CaptureThread_return(k)
    \/ \E k \in 1..Len(overlayUIStates) : Overlay_draw(k)

SpecCapture == Init /\ [][NextCapture]_vars

\* a step of listed capture thread k
CaptureThread_step(k) == CaptureThread_capture(k) \/ CaptureThread_return(k)

\* a step of some capture thread
CaptureStep == \E k \in 1..Len(screenCaptureThreads) : CaptureThread_step(k)

\* The host thread runs the statements of a ResetState it has entered, and a
\* capture thread that can take a step takes it: both are threads the system
\* schedules.
FairCapture == SpecCapture /\ WF_vars(ResetStateStep) /\ WF_vars(CaptureStep)

\* ------------------------------------------- the DPI query during sessions

\* Measure and bounds sessions started and reset by the host, their capture
\* threads, and the DPI query between the host's other calls.
NextQuery ==
    \/ CallStartMeasureTool
    \/ CallStartBoundsTool
    \/ CallResetState
    \/ ResetStateStep
    \/ StartMeasureTool_access
    \/ GetMonitors
    \/ StartMeasureTool_iterate
    \/ StartMeasureTool_return
    \/ StartBoundsTool_iterate
    \/ StartBoundsTool_return
    \/ CaptureThreadStep
    \/ GetDPIScaleForWindow_call

SpecQuery == Init /\ [][NextQuery]_vars

\* ------------------------------------------------ bounds tool: user gestures

\* where a click may land, and where the drag that follows it ends
ClickPoints == CursorPositions
DragEnd == <<5, 6>>

\* the D2D1_RECT_F spanned by the anchor and the point of release
RegionRect(start, end) ==
    [ left |-> start[1], top |-> start[2], right |-> end[1], bottom |-> end[2] ]

\* first click: the anchor of a new region
StartRegion(perScreen, window, point) ==
    [perScreen EXCEPT ![window].currentRegionStart = Some(point)]

\* variant: the anchor survives the commit
CommitRegionKeepAnchor(perScreen, window, point) ==
    [perScreen EXCEPT
        ![window].measurements =
            Append(@, RegionRect(perScreen[window].currentRegionStart[1], point))]

\* release: the region goes to the measurement list, the anchor is cleared
CommitRegion(perScreen, window, point) ==
    [perScreen EXCEPT
        ![window].measurements =
            Append(@, RegionRect(perScreen[window].currentRegionStart[1], point)),
        ![window].currentRegionStart = Nullopt]

\* the user clicks on surface k, which has no anchor
Bounds_press(k) ==
    /\ overlayUIStates[k].tool = "bounds"
    /\ overlayUIStates[k].state = "Active"
    /\ LET window == overlayUIStates[k].window IN
         /\ boundsToolState.perScreen[window].currentRegionStart = Nullopt
         /\ Len(boundsToolState.perScreen[window].measurements) < MaxMeasurements
         /\ \E point \in ClickPoints :
               boundsToolState' =
                   [boundsToolState EXCEPT !.perScreen = StartRegion(@, window, point)]
    /\ resetSnapshot' = NoSnapshot
    /\ UNCHANGED << hostVars, pollVars, screenCaptureThreads, overlayUIStates,
                    measureToolState, commonState, settings, settingsFile,
                    callbackVars, liveCaptureThreads, auxVars >>

\* the user releases the button on surface k, which has an anchor
Bounds_release(k) ==
    /\ overlayUIStates[k].tool = "bounds"
    /\ overlayUIStates[k].state = "Active"
    /\ LET window == overlayUIStates[k].window IN
         /\ boundsToolState.perScreen[window].currentRegionStart # Nullopt
         /\ boundsToolState' =
               [boundsToolState EXCEPT !.perScreen = CommitRegion(@, window, DragEnd)]
    /\ resetSnapshot' = NoSnapshot
    /\ UNCHANGED << hostVars, pollVars, screenCaptureThreads, overlayUIStates,
                    measureToolState, commonState, settings, settingsFile,
                    callbackVars, liveCaptureThreads, auxVars >>

\* Bounds sessions only: the host starts and resets them, the user draws
\* regions.  No capture thread exists, so the join loop has nothing to visit.
NextBounds ==
    \/ CallStartBoundsTool
    \/ CallResetState
    \/ ResetState_closeOnOtherMonitors
    \/ ResetState_clearOverlays
    \/ ResetState_resetBounds
    \/ ResetState_clearThreads
    \/ ResetState_resetMeasure
    \/ ResetState_loadSettings
    \/ ResetState_finish
    \/ GetMonitors
    \/ StartBoundsTool_iterate
    \/ StartBoundsTool_return
    \/ \E k \in 1..Len(overlayUIStates) :
          \/ Bounds_press(k)
          \/ Bounds_release(k)

SpecBounds == Init /\ [][NextBounds]_vars

\* ------------------------------------- SetToolbarBoundingBox on any arguments

\* 32-bit unsigned values: both ends of the range and both sides of 2^31
Uint32Samples ==
    { Uint32(0, 0), Uint32(0, 110), Uint32(2^15 - 1, 2^16 - 1),
      Uint32(2^15, 0), Uint32(2^16 - 1, 2^16 - 1) }

\* Core as constructed, the host about to call SetToolbarBoundingBox with any
\* four of the sample values
InitToolbar ==
    /\ args \in [ fromX : Uint32Samples, fromY : Uint32Samples,
                  toX : Uint32Samples, toY : Uint32Samples ]
    /\ pc = "idle"
    /\ op = "Core"
    /\ monitors = <<>>
    /\ idx = 1
    /\ mouseCaptureThread = [pc |-> "test", cursorPos |-> <<0, 0>>]
    /\ screenCaptureThreads = <<>>
    /\ stopMouseCaptureThreadSignal = FALSE
    /\ overlayUIStates = <<>>
    /\ measureToolState = InitMeasureToolState
    /\ boundsToolState = NewBoundsToolState(NullPtr)
    /\ commonState = InitCommonState
    /\ settings = DefaultSettings
    /\ settingsFile = DefaultSettings
    /\ invoked = <<>>
    /\ closedUnregistered = FALSE
    /\ lastRegistered = NoCallback
    /\ liveCaptureThreads = 0
    /\ resetSnapshot = NoSnapshot
    /\ dpiScale = NoQuery
    /\ framesAcquired = NoFrames
    /\ frameDrawn = NoFrames
    /\ gpuAccessLock = FreeLock
    /\ gpuOperations = NoOperations
    /\ customAction = NoCustomAction

\* the call, on the arguments Init chose                    (lines 139-148)
SetToolbarBoundingBox_call ==
    /\ pc = "idle"
    /\ op = "Core"
    /\ commonState' = SetToolbarBoundingBox(commonState, args.fromX, args.fromY,
                                            args.toX, args.toY)
    /\ op' = "SetToolbarBoundingBox"
    /\ UNCHANGED << pc, args, monitors, idx, pollVars, screenCaptureThreads,
                    overlayUIStates, measureToolState, boundsToolState, settings,
                    settingsFile, ghostVars, auxVars >>

SpecToolbar == InitToolbar /\ [][SetToolbarBoundingBox_call]_vars

\* --------------------------------------------------------------- properties

\* the method has run to its end and the host is back in its own code
Returned(method) == op = method /\ pc = "idle"

\* ResetState has just returned to its caller, or to the host
ResetStateReturned ==
    \/ Returned("ResetState")
    \/ op = "StartBoundsTool" /\ pc = "GetMonitors"
    \/ op = "StartMeasureTool" /\ pc = "Access"
    \/ op = "~Core" /\ pc = "UnregisterProvider"

\* the host is at a statement of ResetState
ResetPcs ==
    { "ResetState", "clearOverlays", "resetBounds", "join", "resetMeasure",
      "LoadFromFile", "lineColor" }

\* the step is one of the host thread
HostStep == pc' # pc \/ idx' # idx

\* a Start method is about to create its first surface
AtSurfaceCreation == pc \in {"boundsLoop", "measureLoop"} /\ idx = 1

SurfaceMonitors == [k \in 1..Len(overlayUIStates) |-> overlayUIStates[k].monitor]
ThreadMonitors == [k \in 1..Len(screenCaptureThreads) |-> screenCaptureThreads[k].monitor]

\* the monitors whose surface creation succeeds, in enumeration order
CreatedMonitors ==
    LET ok == SelectSeq(monitors, LAMBDA m : ~m.createFails)
    IN  [k \in 1..Len(ok) |-> ok[k].id]

\* C1: once StartBoundsTool has returned, Core holds at most N overlay
\* surfaces, N being the number of monitors enumerated, and no capture thread:
\* none is listed and none is running.
C1_BoundsToolCreatesNoThreads ==
    Returned("StartBoundsTool") =>
        /\ Len(overlayUIStates) <= Len(monitors)
        /\ Len(screenCaptureThreads) = 0
        /\ liveCaptureThreads = 0

\* StartBoundsTool returned with some monitors skipped and some not
C1_Witness ==
    /\ Returned("StartBoundsTool")
    /\ Len(monitors) = MaxMonitors
    /\ Len(overlayUIStates) > 0
    /\ Len(overlayUIStates) < Len(monitors)

\* C2: once StartMeasureTool has returned, there are as many capture threads
\* as overlay surfaces, at most N of each, and the threads and the surfaces
\* pair up one to one by window handle.
C2_OneThreadPerSurface ==
    Returned("StartMeasureTool") =>
        /\ Len(screenCaptureThreads) = Len(overlayUIStates)
        /\ Len(overlayUIStates) <= Len(monitors)
        /\ \A t \in 1..Len(screenCaptureThreads) :
              Cardinality({k \in 1..Len(overlayUIStates) :
                  overlayUIStates[k].window = screenCaptureThreads[t].window}) = 1
        /\ \A k \in 1..Len(overlayUIStates) :
              Cardinality({t \in 1..Len(screenCaptureThreads) :
                  screenCaptureThreads[t].window = overlayUIStates[k].window}) = 1

\* StartMeasureTool returned with a window whose handle is not its monitor's number
C2_Witness ==
    /\ Returned("StartMeasureTool")
    /\ Len(overlayUIStates) > 0
    /\ \E k \in 1..Len(overlayUIStates) :
          overlayUIStates[k].window # overlayUIStates[k].monitor

\* C3: whenever ResetState has returned, to the host or to the method that
\* called it, no overlay surface and no capture thread is left: both lists are
\* empty and no capture thread is running.
C3_ResetLeavesNothingLive ==
    ResetStateReturned =>
        /\ overlayUIStates = <<>>
        /\ screenCaptureThreads = <<>>
        /\ liveCaptureThreads = 0

\* the second of two ResetState calls in a row has returned
C3_Witness ==
    /\ Returned("ResetState")
    /\ resetSnapshot.runs = 2
    /\ liveCaptureThreads = 0

\* C4: the surfaces of one session invoke the completion callback at most
\* once, and exactly once when a surface has closed and a callback was set
\* when the first of them closed.
C4_CallbackOncePerSession ==
    /\ Len(invoked) <= 1
    /\ ( /\ \E k \in 1..Len(overlayUIStates) : overlayUIStates[k].state = "Closing"
         /\ ~closedUnregistered )
       => Len(invoked) = 1

\* every surface of a session of MaxMonitors monitors has closed
C4_Witness ==
    /\ Len(overlayUIStates) = MaxMonitors
    /\ \A k \in 1..Len(overlayUIStates) : overlayUIStates[k].state = "Closing"
    /\ Len(invoked) = 1

\* C5: the Mode StartMeasureTool stores is Cross for (true, true), Horizontal
\* for (true, false), Vertical for (false, true) and for (false, false).
C5_ModeTable ==
    Returned("StartMeasureTool") =>
        /\ (args.horizontal /\ args.vertical)
              => measureToolState.global.mode = "Cross"
        /\ (args.horizontal /\ ~args.vertical)
              => measureToolState.global.mode = "Horizontal"
        /\ (~args.horizontal /\ args.vertical)
              => measureToolState.global.mode = "Vertical"
        /\ (~args.horizontal /\ ~args.vertical)
              => measureToolState.global.mode = "Vertical"

\* StartMeasureTool(false, false) returned
C5_Witness ==
    /\ Returned("StartMeasureTool")
    /\ ~args.horizontal
    /\ ~args.vertical
    /\ measureToolState.global.mode = "Vertical"

\* C6: both Start methods return whatever surface creations fail, and the
\* surface list then holds one surface per monitor whose creation succeeded,
\* in enumeration order; in measure mode the thread list holds one thread for
\* each of the same monitors, in bounds mode none.
C6_FailedMonitorsSkipped ==
    (Returned("StartBoundsTool") \/ Returned("StartMeasureTool")) =>
        /\ SurfaceMonitors = CreatedMonitors
        /\ ThreadMonitors = IF op = "StartMeasureTool" THEN CreatedMonitors ELSE <<>>

\* StartMeasureTool returned after the first monitor's surface failed
C6_Witness ==
    /\ Returned("StartMeasureTool")
    /\ Len(monitors) = MaxMonitors
    /\ monitors[1].createFails
    /\ Len(overlayUIStates) = MaxMonitors - 1

\* C7: a session end invokes the callback of the latest SetToolCompletionEvent
\* and no callback registered before it.
C7_LatestRegistrationInvoked ==
    [][ (invoked' # invoked /\ invoked' # <<>>)
            => invoked' = Append(invoked, lastRegistered) ]_vars

\* c2, registered in place of c1, is the callback a session end invoked
C7_Witness ==
    /\ lastRegistered = "c2"
    /\ invoked = << "c2" >>

\* C8: a ResetState that follows a ResetState, with nothing else having
\* changed Core in between and the settings file unchanged, leaves every member
\* of Core as the first one left it.
C8_ResetStateIdempotent ==
    [][ ( /\ pc = "lineColor"
          /\ pc' # "lineColor"
          /\ resetSnapshot.runs > 0
          /\ resetSnapshot.file = settingsFile )
            => coreVars' = resetSnapshot.members ]_vars

\* the second ResetState in a row has returned, the first having torn down a
\* session
C8_Witness ==
    /\ Returned("ResetState")
    /\ resetSnapshot.runs = 2
    /\ commonState.overlayBoxText = ReadoutText

\* the stroke colour of a settings snapshot
ColorOf(s) ==
    [ r |-> << s.lineColor[1], 255 >>,
      g |-> << s.lineColor[2], 255 >>,
      b |-> << s.lineColor[3], 255 >> ]

C10_GlobalCopiesLoadedSettings ==
    Returned("StartMeasureTool") =>
        /\ measureToolState.global.continuousCapture = settingsFile.continuousCapture
        /\ measureToolState.global.perColorChannelEdgeDetection =
               settingsFile.perColorChannelEdgeDetection
        /\ measureToolState.global.pixelTolerance = settingsFile.pixelTolerance
        /\ measureToolState.global.drawFeetOnCross = settingsFile.drawFeetOnCross

\* StartMeasureTool returned having read a file that differs from the defaults
C10_Witness ==
    /\ Returned("StartMeasureTool")
    /\ settingsFile # DefaultSettings
    /\ measureToolState.global.pixelTolerance = 255
    /\ ~measureToolState.global.continuousCapture

\* C13: the destructor sets the poll thread's stop signal, then joins the poll
\* thread, then runs all of ResetState, then unregisters tracing: the signal is
\* set when the join starts, the poll thread has finished when ResetState
\* starts and while it runs, and no surface and no capture thread is left when
\* tracing is unregistered.
C13_DestructorOrder ==
    op = "~Core" =>
        /\ pc = "joinMouse" => stopMouseCaptureThreadSignal
        /\ pc \in ResetPcs =>
              /\ stopMouseCaptureThreadSignal
              /\ mouseCaptureThread.pc = "finished"
        /\ pc \in {"UnregisterProvider", "idle"} =>
              /\ stopMouseCaptureThreadSignal
              /\ mouseCaptureThread.pc = "finished"
              /\ overlayUIStates = <<>>
              /\ screenCaptureThreads = <<>>
              /\ liveCaptureThreads = 0

\* the destructor, the poll thread joined, starts to tear down a measure
\* session whose capture threads all run
C13_Witness ==
    /\ op = "~Core"
    /\ pc = "clearOverlays"
    /\ mouseCaptureThread.pc = "finished"
    /\ Len(overlayUIStates) = MaxMonitors
    /\ liveCaptureThreads = MaxMonitors

\* C16: the position a poll iteration publishes in CommonState is the one
\* GetCursorPos gave in that iteration, and no other step writes the published
\* position.
C16_PublishedIsSampled ==
    [][ /\ (mouseCaptureThread.pc = "publish" /\ mouseCaptureThread'.pc # "publish")
            => commonState'.cursorPosSystemSpace = mouseCaptureThread.cursorPos
        /\ commonState'.cursorPosSystemSpace # commonState.cursorPosSystemSpace
            => (mouseCaptureThread.pc = "publish" /\ mouseCaptureThread'.pc = "test")
      ]_vars

\* a surface is up, the cursor has moved off the origin and the poll thread
\* has published the move
C16_Witness ==
    /\ Len(overlayUIStates) > 0
    /\ mouseCaptureThread.pc = "test"
    /\ ~stopMouseCaptureThreadSignal
    /\ commonState.cursorPosSystemSpace = <<3, 4>>

\* C17 as stated: no overlay surface is destroyed while a capture thread
\* bound to its window still runs, the threads being joined before the
\* surfaces are destroyed: every running capture thread's window is owned by a
\* listed surface.
C17_Original ==
    \A t \in 1..Len(screenCaptureThreads) :
        screenCaptureThreads[t].state = "running"
            => screenCaptureThreads[t].window \in WindowsOf(overlayUIStates)

\* C18 as stated: no overlay surface and no per-monitor map entry is created
\* while a capture thread of the session runs.
C18_Original ==
    [][ ( \/ Len(overlayUIStates') > Len(overlayUIStates)
          \/ DOMAIN measureToolState'.perScreen # DOMAIN measureToolState.perScreen
               /\ DOMAIN measureToolState.perScreen
                     \subseteq DOMAIN measureToolState'.perScreen )
            => liveCaptureThreads = 0 ]_vars

\* C19: a step of ResetState that resets MeasureToolState is taken with no
\* capture thread live and none left in the thread list: every thread of the
\* session has been joined before.
C19_ResetOnlyWithNoLiveThread ==
    [][ ( /\ pc \in ResetPcs
          /\ measureToolState' # measureToolState )
            => /\ liveCaptureThreads = 0
               /\ screenCaptureThreads = <<>>
               /\ measureToolState' = ResetMeasureToolState(measureToolState) ]_vars

\* ResetState has joined the threads of a session of MaxMonitors monitors and
\* is about to reset the measure tool state they wrote to
C19_Witness ==
    /\ pc = "resetMeasure"
    /\ Cardinality(DOMAIN measureToolState.perScreen) = MaxMonitors
    /\ liveCaptureThreads = 0

\* from the raising of the stop signal to the end of the joins the signal
\* stays raised, and at each statement of ResetState either the host can take
\* it or the thread the join waits for can return
JoinedThreadsWereSignalled ==
    /\ pc \in {"clearOverlays", "resetBounds", "join"} => StopSignalled
    /\ pc \in ResetPcs =>
          \/ ENABLED ResetStateStep
          \/ /\ pc = "join"
             /\ idx <= Len(screenCaptureThreads)
             /\ ENABLED CaptureThread_step(idx)

\* C20: ResetState never waits for a thread that was not told to stop, in
\* continuous and in one-shot capture mode, and every ResetState that has
\* started returns, the host and the capture threads being scheduled.
C20_ResetStateTerminates ==
    /\ []JoinedThreadsWereSignalled
    /\ (pc \in ResetPcs) ~> (pc \notin ResetPcs)

\* the join waits for a running thread of a one-shot session
C20_Witness ==
    /\ pc = "join"
    /\ idx <= Len(screenCaptureThreads)
    /\ screenCaptureThreads[idx].state = "running"
    /\ ~measureToolState.global.continuousCapture

\* the long holds the number the 32-bit unsigned value stands for
SameNumber(long, u) ==
    /\ long >= 0
    /\ long \div 2^16 = u.hi
    /\ long % 2^16 = u.lo

\* C11 as stated: whatever the four arguments, the rectangle
\* SetToolbarBoundingBox stores has left, top, right and bottom numerically
\* equal to fromX, fromY, toX and toY.
C11_Original ==
    op = "SetToolbarBoundingBox" =>
        /\ SameNumber(commonState.toolbarBoundingBox.left, args.fromX)
        /\ SameNumber(commonState.toolbarBoundingBox.top, args.fromY)
        /\ SameNumber(commonState.toolbarBoundingBox.right, args.toX)
        /\ SameNumber(commonState.toolbarBoundingBox.bottom, args.toY)

\* C15: in a bounds session a step that changes the record of a monitor whose
\* anchor is set is a commit: it appends exactly one rectangle, spanned from
\* the anchor, to that monitor's measurement list, clears that monitor's
\* anchor and leaves the record of every other monitor as it was.
C15_CommitAppendsOne ==
    [][ \A w \in DOMAIN boundsToolState.perScreen \cap DOMAIN boundsToolState'.perScreen :
          LET old == boundsToolState.perScreen[w]
              new == boundsToolState'.perScreen[w]
          IN  (old.currentRegionStart # Nullopt /\ new # old) =>
                /\ new.currentRegionStart = Nullopt
                /\ Len(new.measurements) = Len(old.measurements) + 1
                /\ SubSeq(new.measurements, 1, Len(old.measurements)) = old.measurements
                /\ new.measurements[Len(new.measurements)].left = old.currentRegionStart[1][1]
                /\ new.measurements[Len(new.measurements)].top = old.currentRegionStart[1][2]
                /\ \A v \in DOMAIN boundsToolState.perScreen \ {w} :
                      /\ v \in DOMAIN boundsToolState'.perScreen
                      /\ boundsToolState'.perScreen[v] = boundsToolState.perScreen[v]
      ]_vars

\* a second region has been committed on one monitor while another monitor
\* holds an anchor and a committed region of its own
C15_Witness ==
    \E v, w \in DOMAIN boundsToolState.perScreen :
        /\ v # w
        /\ boundsToolState.perScreen[v].currentRegionStart # Nullopt
        /\ Len(boundsToolState.perScreen[v].measurements) = 1
        /\ boundsToolState.perScreen[w].currentRegionStart = Nullopt
        /\ Len(boundsToolState.perScreen[w].measurements) = MaxMeasurements

\* C12: a call of GetDPIScaleForWindow returns, leaves every member of Core
\* and both kinds of thread as they were, and its result is default DPI over
\* default DPI when the query failed and the queried DPI over the default DPI
\* otherwise.
C12_DPIScalePureWithFallback ==
    [][ dpiScale' # dpiScale =>
            /\ coreVars' = coreVars
            /\ pollVars' = pollVars
            /\ pc' = "idle"
            /\ dpiScale'.called
            /\ dpiScale'.scale =
                   IF dpiScale'.ok THEN << dpiScale'.dpi, DEFAULT_DPI >>
                                   ELSE << DEFAULT_DPI, DEFAULT_DPI >>
      ]_vars

\* the query failed during a measure session whose surfaces and capture
\* threads are all up
C12_Witness ==
    /\ dpiScale.called
    /\ ~dpiScale.ok
    /\ dpiScale.scale[1] = dpiScale.scale[2]
    /\ Len(overlayUIStates) = MaxMonitors
    /\ liveCaptureThreads = MaxMonitors

\* C14: in a measure session with continuous capture off, each capture thread
\* acquires at most one frame, has acquired exactly one when it has returned,
\* the frame stays in its window's record, raw or as the cached bitmap, and
\* what the window's surface draws is that cached frame.
C14_OneShotFrameAcquiredOnce ==
    ~measureToolState.global.continuousCapture =>
        \A t \in 1..Len(screenCaptureThreads) :
            LET window == screenCaptureThreads[t].window
                record == measureToolState.perScreen[window]
            IN  /\ framesAcquired[window] <= 1
                /\ screenCaptureThreads[t].state = "finished"
                      => framesAcquired[window] = 1
                /\ framesAcquired[window] = 1 =>
                      \/ record.capturedScreenTexture = ComPtr(1)
                      \/ record.capturedScreenBitmap = ComPtr(1)
                /\ frameDrawn[window] # 0 =>
                      /\ frameDrawn[window] = 1
                      /\ record.capturedScreenBitmap = ComPtr(1)
                      /\ record.capturedScreenTexture = NullComPtr

\* a one-shot session on MaxMonitors monitors is torn down: every thread has
\* acquired its frame, every surface has drawn it, a thread has returned
C14_Witness ==
    /\ ~measureToolState.global.continuousCapture
    /\ Len(screenCaptureThreads) = MaxMonitors
    /\ \A t \in 1..Len(screenCaptureThreads) :
          /\ framesAcquired[screenCaptureThreads[t].window] = 1
          /\ frameDrawn[screenCaptureThreads[t].window] = 1
    /\ \E t \in 1..Len(screenCaptureThreads) :
          screenCaptureThreads[t].state = "finished"

\* ------------------------------------------- the poll thread over a lifetime

\* a step of the poll thread
MouseCaptureThreadStep ==
    \/ MouseCaptureThread_test
    \/ MouseCaptureThread_publish

\* The host starts and resets bounds sessions and finally destroys the object
\* while the poll thread runs.  Neither the scheduler nor the sleep of line 29
\* holds a thread back for ever, so a thread that can step does so.
NextLifetime ==
    \/ MouseCaptureThread_test
    \/ MouseCaptureThread_publish
    \/ CallStartBoundsTool
    \/ CallResetState
    \/ ResetState_closeOnOtherMonitors
    \/ ResetState_clearOverlays
    \/ ResetState_resetBounds
    \/ ResetState_clearThreads
    \/ ResetState_resetMeasure
    \/ ResetState_loadSettings
    \/ ResetState_finish
    \/ GetMonitors
    \/ StartBoundsTool_iterate
    \/ StartBoundsTool_return
    \/ CallDestructor
    \/ Destructor_signal
    \/ Destructor_join
    \/ Destructor_return

FairLifetime ==
    /\ Init
    /\ [][NextLifetime]_vars
    /\ WF_vars(MouseCaptureThreadStep)
    /\ WF_vars(Destructor_join)

\* C21: once the stop signal of the poll thread is set, the thread publishes
\* at most one more sample (the one it had already taken) and then leaves its
\* loop, so that the join of the destructor returns.
C21_PollThreadStops ==
    /\ [][ (stopMouseCaptureThreadSignal /\ mouseCaptureThread' # mouseCaptureThread)
             => \/ mouseCaptureThread'.pc = "finished"
                \/ /\ mouseCaptureThread.pc = "publish"
                   /\ mouseCaptureThread'.pc = "test" ]_vars
    /\ [][ mouseCaptureThread.pc = "finished" => mouseCaptureThread'.pc = "finished" ]_vars
    /\ stopMouseCaptureThreadSignal ~> (mouseCaptureThread.pc = "finished")
    /\ (pc = "joinMouse") ~> (pc = "ResetState")

\* the destructor waits in join while the thread still holds a sample to publish
C21_Witness ==
    /\ pc = "joinMouse"
    /\ stopMouseCaptureThreadSignal
    /\ mouseCaptureThread.pc = "publish"
    /\ mouseCaptureThread.cursorPos # commonState.cursorPosSystemSpace

\* C22: the cursor position of CommonState changes only in the exchange of
\* the poll thread, and both coordinates change together: in every state, so
\* whenever a reader looks, the pair is the initial (0,0) or the pair of one
\* sample, never x of one sample with y of another.
C22_CursorPairIsOneSample ==
    /\ [](commonState.cursorPosSystemSpace \in ({ <<0, 0>> } \cup CursorPositions))
    /\ [][ commonState'.cursorPosSystemSpace # commonState.cursorPosSystemSpace
             => /\ mouseCaptureThread.pc = "publish"
                /\ mouseCaptureThread'.pc = "test"
                /\ commonState'.cursorPosSystemSpace = mouseCaptureThread.cursorPos ]_vars

\* a surface is up and reads the pair of one sample while the thread is about
\* to replace both of its coordinates by those of the next sample
C22_Witness ==
    /\ \E k \in 1..Len(overlayUIStates) : overlayUIStates[k].state = "Active"
    /\ commonState.cursorPosSystemSpace = <<3, 4>>
    /\ mouseCaptureThread.pc = "publish"
    /\ mouseCaptureThread.cursorPos = <<0, 0>>

\* C25: the global sub-record of the measure tool state is written by
\* StartMeasureTool before any surface or capture thread of the session
\* exists, keeps the written value while the session is set up, and is changed
\* by no other step until a later ResetState resets it.
C25_GlobalWrittenAtSessionStart ==
    /\ [][ measureToolState'.global # measureToolState.global
             => \/ /\ op = "StartMeasureTool"
                   /\ pc = "Access"
                   /\ overlayUIStates = <<>>
                   /\ screenCaptureThreads = <<>>
                   /\ measureToolState.global = InitGlobal
                \/ /\ pc = "resetMeasure"
                   /\ measureToolState'.global = InitGlobal ]_vars
    /\ []( (op = "StartMeasureTool" /\ pc \in { "GetMonitors", "measureLoop", "idle" })
             => measureToolState.global =
                   SetGlobal(InitGlobal, args.horizontal, args.vertical, settings) )

\* a session with settings that differ from the defaults is up on MaxMonitors
\* monitors: its global sub-record is the written one, whilst a callback is
\* registered, the toolbar has been moved and the poll thread has published
C25_Witness ==
    /\ Returned("StartMeasureTool")
    /\ Len(screenCaptureThreads) = MaxMonitors
    /\ Len(overlayUIStates) = MaxMonitors
    /\ measureToolState.global.pixelTolerance # DefaultPixelTolerance
    /\ measureToolState.global.mode = "Vertical"
    /\ commonState.sessionCompletedCallback # NoCallback
    /\ commonState.toolbarBoundingBox.right # 0
    /\ commonState.cursorPosSystemSpace # <<0, 0>>

\* C26: from the first statement of ResetState until the overlay surfaces are
\* cleared and the capture threads joined, the close-on-other-monitors flag of
\* CommonState is false.
C26_Original ==
    (pc \in { "clearOverlays", "resetBounds", "join" })
        => ~commonState.closeOnOtherMonitors

\* C26, as the code has it: the flag is true from the first statement of
\* ResetState on, while the surfaces are cleared, the threads joined and the
\* settings reloaded; the last statement lowers it, and it is false at every
\* other time.
C26_FlagRaisedDuringReset ==
    commonState.closeOnOtherMonitors <=> (pc \in (ResetPcs \ { "ResetState" }))

\* the flag is up while surfaces of a session are still there to be cleared
C26_Witness ==
    /\ pc = "clearOverlays"
    /\ commonState.closeOnOtherMonitors
    /\ \E k \in 1..Len(overlayUIStates) : overlayUIStates[k].state = "Active"
    /\ \E t \in 1..Len(screenCaptureThreads) : screenCaptureThreads[t].state = "running"

\* C27: whenever ResetState has returned, both per-monitor maps are empty, the
\* global sub-record of the measure tool state holds its defaults (tolerance
\* 30, continuous capture on, feet on, per-channel detection off, Mode Cross)
\* and both tool states point to the CommonState of the orchestrator.
C27_ResetClearsAndLinks ==
    ResetStateReturned =>
        /\ boundsToolState.perScreen = EmptyMap
        /\ boundsToolState.commonState = CommonStatePtr
        /\ measureToolState.perScreen = EmptyMap
        /\ measureToolState.commonState = CommonStatePtr
        /\ measureToolState.commonState # NullPtr
        /\ measureToolState.global =
              [ pixelTolerance |-> DefaultPixelTolerance,
                continuousCapture |-> TRUE,
                drawFeetOnCross |-> TRUE,
                perColorChannelEdgeDetection |-> FALSE,
                mode |-> "Cross" ]

\* ResetState has returned to StartMeasureTool, called for the vertical mode
\* with settings loaded that differ from the defaults: the global sub-record
\* holds the defaults all the same
C27_Witness ==
    /\ op = "StartMeasureTool"
    /\ pc = "Access"
    /\ ~args.horizontal
    /\ settings.pixelTolerance # DefaultPixelTolerance
    /\ ~settings.continuousCapture
    /\ commonState.cursorPosSystemSpace # <<0, 0>>

\* C28: the poll thread started by the constructor runs for the whole lifetime
\* of the orchestrator: it is running whenever the destructor has not been
\* entered, whatever ResetState, StartBoundsTool and StartMeasureTool do; its
\* stop signal is set by the destructor alone; it ends only inside the
\* destructor and has ended when the destructor goes on past its join; once
\* ended it is never started again.
C28_OnePollThreadForLifetime ==
    /\ [](op # "~Core" => mouseCaptureThread.pc \in { "test", "publish" })
    /\ [](stopMouseCaptureThreadSignal => (op = "~Core" /\ pc # "SetEvent"))
    /\ [](mouseCaptureThread.pc = "finished"
             => (op = "~Core" /\ stopMouseCaptureThreadSignal))
    /\ []((op = "~Core" /\ pc \notin { "SetEvent", "joinMouse" })
             => mouseCaptureThread.pc = "finished")
    /\ [][ mouseCaptureThread.pc = "finished"
             => mouseCaptureThread'.pc = "finished" ]_vars
    /\ [][ stopMouseCaptureThreadSignal' # stopMouseCaptureThreadSignal
             => (pc = "SetEvent" /\ stopMouseCaptureThreadSignal') ]_vars

\* a measure session on MaxMonitors monitors is up, after the ResetState that
\* StartMeasureTool runs, and the poll thread is in the middle of an iteration
C28_Witness ==
    /\ Returned("StartMeasureTool")
    /\ Len(screenCaptureThreads) = MaxMonitors
    /\ mouseCaptureThread.pc = "publish"
    /\ mouseCaptureThread.cursorPos = <<3, 4>>
    /\ commonState.cursorPosSystemSpace = <<3, 4>>
    /\ ~stopMouseCaptureThreadSignal

\* ---------------------------------------------- critical sections of the host

\* The record whose critical section the host thread is inside while it runs
\* the statement it stands at.  _measureToolState is a Serialized<> member,
\* touched through Reset and Access only (lines 63-66 and 100-110);
\* _boundsToolState is a plain BoundsToolState that line 54 assigns directly,
\* and no statement of Core enters the critical section of overlayBoxText.
CriticalSectionOf(statement) ==
    IF statement \in { "resetMeasure", "Access" }
      THEN "measureToolState"
      ELSE "none"

\* the statements of Core that assign to a tool-state record
RecordStatements == ResetPcs \cup { "Access" }

\* C23: every read or mutation of the measure tool state, of the bounds tool
\* state and of the readout text by the orchestrator happens inside the
\* critical section of that record, also while ResetState reassigns them.
C23_Original ==
    [][ (HostStep /\ pc \in RecordStatements)
          => /\ measureToolState' # measureToolState
                 => CriticalSectionOf(pc) = "measureToolState"
             /\ boundsToolState' # boundsToolState
                 => CriticalSectionOf(pc) = "boundsToolState"
             /\ commonState'.overlayBoxText # commonState.overlayBoxText
                 => CriticalSectionOf(pc) = "overlayBoxText" ]_vars

\* ---------------------------------------------------------------- Core::Core

\* The object as the constructor finds it.  Members are initialised in the
\* order of their declaration (PowerToys.MeasureToolCore.h:24-32), so the
\* poll thread member comes first; the storage of the members that follow
\* holds whatever was there: the event may read as set or as not set, the
\* cursor position as any position.
InitConstruct ==
    /\ pc = "mouseCaptureThread"
    /\ op = "Core"
    /\ args = NoArgs
    /\ monitors = <<>>
    /\ idx = 1
    /\ mouseCaptureThread = [pc |-> "notStarted", cursorPos |-> <<0, 0>>]
    /\ screenCaptureThreads = <<>>
    /\ stopMouseCaptureThreadSignal \in BOOLEAN
    /\ overlayUIStates = <<>>
    /\ measureToolState = InitMeasureToolState
    /\ boundsToolState = NewBoundsToolState(NullPtr)
    /\ \E garbage \in CursorPositions :
          commonState = [InitCommonState EXCEPT !.cursorPosSystemSpace = garbage]
    /\ settings = DefaultSettings
    /\ settingsFile = DefaultSettings
    /\ invoked = <<>>
    /\ closedUnregistered = FALSE
    /\ lastRegistered = NoCallback
    /\ liveCaptureThreads = 0
    /\ resetSnapshot = NoSnapshot
    /\ dpiScale = NoQuery
    /\ framesAcquired = NoFrames
    /\ frameDrawn = NoFrames
    /\ gpuAccessLock = FreeLock
    /\ gpuOperations = NoOperations
    /\ customAction = NoCustomAction

\* _mouseCaptureThread{ [this] { MouseCaptureThread(); } }  (line 34, h:24)
\* the thread starts running as soon as the member is constructed
Core_mouseCaptureThread ==
    /\ pc = "mouseCaptureThread"
    /\ mouseCaptureThread' = [pc |-> "test", cursorPos |-> <<0, 0>>]
    /\ pc' = "stopMouseCaptureThreadSignal"
    /\ UNCHANGED << op, args, monitors, idx, stopMouseCaptureThreadSignal, coreVars,
                    settingsFile, ghostVars, auxVars >>

\* _stopMouseCaptureThreadSignal{ wil::EventOptions::ManualReset }  (line 35, h:26)
Core_stopMouseCaptureThreadSignal ==
    /\ pc = "stopMouseCaptureThreadSignal"
    /\ stopMouseCaptureThreadSignal' = FALSE
    /\ pc' = "commonState"
    /\ UNCHANGED << op, args, monitors, idx, mouseCaptureThread, coreVars,
                    settingsFile, ghostVars, auxVars >>

\* the default member initialisers of _overlayUIStates ... _settings  (h:28-32)
Core_commonState ==
    /\ pc = "commonState"
    /\ overlayUIStates' = <<>>
    /\ measureToolState' = InitMeasureToolState
    /\ boundsToolState' = NewBoundsToolState(NullPtr)
    /\ commonState' = InitCommonState
    /\ settings' = DefaultSettings
    /\ pc' = "RegisterProvider"
    /\ UNCHANGED << op, args, monitors, idx, pollVars, screenCaptureThreads,
                    settingsFile, ghostVars, auxVars >>

\* Trace::RegisterProvider(); LoggerHelpers::init_logger(...);  (lines 37-38)
Core_return ==
    /\ pc = "RegisterProvider"
    /\ pc' = "idle"
    /\ UNCHANGED << op, args, monitors, idx, pollVars, coreVars, settingsFile,
                    ghostVars, auxVars >>

\* Construction, then the lifetime of the object.
NextConstruct ==
    \/ Core_mouseCaptureThread
    \/ Core_stopMouseCaptureThreadSignal
    \/ Core_commonState
    \/ Core_return
    \/ NextLifetime

SpecConstruct == InitConstruct /\ [][NextConstruct]_vars

\* the constructor has initialised the member
StopSignalConstructed == pc \notin { "mouseCaptureThread", "stopMouseCaptureThreadSignal" }
CommonStateConstructed ==
    pc \notin { "mouseCaptureThread", "stopMouseCaptureThreadSignal", "commonState" }

\* C29: while the orchestrator is constructed, the poll thread does not test
\* the stop signal before the stop signal member is initialised and does not
\* write the cursor position before the CommonState member is initialised.
C29_Original ==
    [][ /\ (mouseCaptureThread.pc = "test" /\ mouseCaptureThread' # mouseCaptureThread)
            => StopSignalConstructed
        /\ (mouseCaptureThread.pc = "publish" /\ mouseCaptureThread'.pc = "test")
            => CommonStateConstructed ]_vars

\* ------------------------------- the setters, one store after the other

\* what sessionCompletedCallback holds while the assignment of a std::function
\* is under way: neither the old target nor the new one     (ToolState.h:26)
PartialCallback == "partial"

\* _commonState.sessionCompletedCallback = ...: the assignment of line 134 has
\* begun.  A std::function is assigned in several stores and line 134 takes no
\* lock; a surface runs on a thread of its own.
SetToolCompletionEvent_begin ==
    /\ pc = "idle"
    /\ op # "~Core"
    /\ \E trigger \in Callbacks :
          /\ lastRegistered = NoCallback => trigger = FirstCallback
          /\ args' = [trigger |-> trigger]
    /\ op' = "SetToolCompletionEvent"
    /\ pc' = "sessionCompletedCallback"
    /\ commonState' = [commonState EXCEPT !.sessionCompletedCallback = PartialCallback]
    /\ resetSnapshot' = NoSnapshot
    /\ UNCHANGED << monitors, idx, pollVars, screenCaptureThreads, overlayUIStates,
                    measureToolState, boundsToolState, settings, settingsFile,
                    callbackVars, liveCaptureThreads, auxVars >>

\* the assignment of line 134 is complete
SetToolCompletionEvent_end ==
    /\ pc = "sessionCompletedCallback"
    /\ commonState' = SetToolCompletionEvent(commonState, args.trigger)
    /\ lastRegistered' = args.trigger
    /\ pc' = "idle"
    /\ UNCHANGED << op, args, monitors, idx, pollVars, screenCaptureThreads,
                    overlayUIStates, measureToolState, boundsToolState, settings,
                    settingsFile, invoked, closedUnregistered, liveCaptureThreads,
                    resetSnapshot, auxVars >>

\* _commonState.toolbarBoundingBox = Box{ RECT{ ... } }: the four longs are
\* copied one store after the other and line 144 takes no lock; left and top
\* are stored                                               (lines 144-147)
SetToolbarBoundingBox_begin ==
    /\ pc = "idle"
    /\ op # "~Core"
    /\ \E a \in ToolbarArgs :
          /\ args' = a
          /\ commonState' =
                [commonState EXCEPT !.toolbarBoundingBox.left = ToLong(a[1]),
                                    !.toolbarBoundingBox.top = ToLong(a[2])]
    /\ op' = "SetToolbarBoundingBox"
    /\ pc' = "toolbarBoundingBox"
    /\ resetSnapshot' = NoSnapshot
    /\ UNCHANGED << monitors, idx, pollVars, screenCaptureThreads, overlayUIStates,
                    measureToolState, boundsToolState, settings, settingsFile,
                    callbackVars, liveCaptureThreads, auxVars >>

\* right and bottom are stored: the rectangle is the one of the arguments
SetToolbarBoundingBox_end ==
    /\ pc = "toolbarBoundingBox"
    /\ commonState' = SetToolbarBoundingBox(commonState, args[1], args[2], args[3], args[4])
    /\ pc' = "idle"
    /\ UNCHANGED << op, args, monitors, idx, pollVars, screenCaptureThreads,
                    overlayUIStates, measureToolState, boundsToolState, settings,
                    settingsFile, ghostVars, auxVars >>

\* Bounds sessions during which the host registers callbacks and moves the
\* toolbar, while surfaces close on their own threads.
NextSetters ==
    \/ CallStartBoundsTool
    \/ CallResetState
    \/ ResetState_closeOnOtherMonitors
    \/ ResetState_clearOverlays
    \/ ResetState_resetBounds
    \/ ResetState_clearThreads
    \/ ResetState_resetMeasure
    \/ ResetState_loadSettings
    \/ ResetState_finish
    \/ GetMonitors
    \/ StartBoundsTool_iterate
    \/ StartBoundsTool_return
    \/ SetToolCompletionEvent_begin
    \/ SetToolCompletionEvent_end
    \/ SetToolbarBoundingBox_begin
    \/ SetToolbarBoundingBox_end
    \/ \E k \in 1..Len(overlayUIStates) : Overlay_close(k)

SpecSetters == Init /\ [][NextSetters]_vars

\* a surface is up: it reads the toolbar rectangle on its ticks and the
\* callback when it closes
SurfaceActive == \E k \in 1..Len(overlayUIStates) : overlayUIStates[k].state = "Active"

\* C30: SetToolCompletionEvent and SetToolbarBoundingBox never write the
\* callback or the toolbar rectangle while a surface reads or invokes it: no
\* surface is there to read the rectangle while only a part of it is written,
\* and no surface closes, and invokes, while the callback is partly assigned.
C30_Original ==
    /\ [](SurfaceActive => pc \notin { "toolbarBoundingBox", "sessionCompletedCallback" })
    /\ [][ (\E k \in 1..Len(overlayUIStates) :
               /\ overlayUIStates[k].state = "Active"
               /\ overlayUIStates'[k].state = "Closing")
             => commonState.sessionCompletedCallback # PartialCallback ]_vars
    /\ [](PartialCallback \notin { invoked[i] : i \in 1..Len(invoked) })

\* ------------------------------------------------------------- gpuAccessLock

\* variant: a plain mutex, which its owner cannot lock again
CanLockPlain(lock, thread) == lock.count = 0

\* std::recursive_mutex: lock() returns once no other thread owns the mutex
CanLock(lock, thread) == lock.count = 0 \/ lock.owner = thread

\* lock(): one more level of ownership for the thread
Lock(lock, thread) == [ owner |-> thread, count |-> lock.count + 1 ]

\* unlock(): one level less; with the last level the mutex is free
Unlock(lock) ==
    IF lock.count = 1
      THEN FreeLock
      ELSE [ lock EXCEPT !.count = @ - 1 ]

\* the thread is there: a capture thread that runs, a surface of the list
GpuThreadLive(thread) ==
    IF thread[1] = "capture"
      THEN \E k \in 1..Len(screenCaptureThreads) :
              /\ screenCaptureThreads[k].window = thread[2]
              /\ screenCaptureThreads[k].state = "running"
      ELSE thread[2] \in WindowsOf(overlayUIStates)

\* a thread begins a GPU operation (acquiring a frame, converting it, drawing),
\* possibly from inside another one: it locks gpuAccessLock for its duration
Gpu_enter(thread) ==
    /\ GpuThreadLive(thread)
    /\ gpuOperations[thread] < MaxNesting
    /\ CanLock(gpuAccessLock, thread)
    /\ gpuAccessLock' = Lock(gpuAccessLock, thread)
    /\ gpuOperations' = [gpuOperations EXCEPT ![thread] = @ + 1]
    /\ UNCHANGED << hostVars, pollVars, coreVars, settingsFile, ghostVars, dpiScale,
                    frameVars, installerVars >>

\* the thread ends its innermost GPU operation and unlocks
Gpu_leave(thread) ==
    /\ gpuOperations[thread] > 0
    /\ gpuAccessLock' = Unlock(gpuAccessLock)
    /\ gpuOperations' = [gpuOperations EXCEPT ![thread] = @ - 1]
    /\ UNCHANGED << hostVars, pollVars, coreVars, settingsFile, ghostVars, dpiScale,
                    frameVars, installerVars >>

\* a capture thread returns from outside of any GPU operation
CaptureThread_exitUnlocked(k) ==
    /\ gpuOperations[<< "capture", screenCaptureThreads[k].window >>] = 0
    /\ CaptureThread_exit(k)

\* destroying a surface waits for the GPU operation its thread is inside of
ResetState_clearIdleOverlays ==
    /\ \A w \in Handles : gpuOperations[<< "surface", w >>] = 0
    /\ ResetState_clearOverlays

\* Measure sessions whose capture threads and surfaces work on the GPU.
NextGpu ==
    \/ CallStartMeasureTool
    \/ ResetState_closeOnOtherMonitors
    \/ ResetState_clearIdleOverlays
    \/ ResetState_resetBounds
    \/ ResetState_join
    \/ ResetState_clearThreads
    \/ ResetState_resetMeasure
    \/ ResetState_loadSettings
    \/ ResetState_finish
    \/ StartMeasureTool_access
    \/ GetMonitors
    \/ StartMeasureTool_iterate
    \/ StartMeasureTool_return
    \/ \E k \in 1..Len(screenCaptureThreads) : CaptureThread_exitUnlocked(k)
    \/ \E thread \in GpuThreads :
          \/ Gpu_enter(thread)
          \/ Gpu_leave(thread)

SpecGpu == Init /\ [][NextGpu]_vars

\* the threads that are inside a GPU operation
InGpuOperation == { t \in GpuThreads : gpuOperations[t] > 0 }

\* C24: at most one thread is inside a GPU operation at any time; the thread
\* that holds the lock can begin a nested operation and can end the one it is
\* in, so it never blocks on itself; the lock counts the operations its owner
\* is inside of and is free when the owner has left as many as it began.
C24_GpuLockExclusiveReentrant ==
    /\ Cardinality(InGpuOperation) <= 1
    /\ gpuAccessLock.count = 0 <=> InGpuOperation = {}
    /\ gpuAccessLock.count = 0 <=> gpuAccessLock.owner = NoThread
    /\ \A t \in InGpuOperation :
          /\ gpuAccessLock.owner = t
          /\ gpuAccessLock.count = gpuOperations[t]
          /\ ENABLED Gpu_leave(t)
          /\ (GpuThreadLive(t) /\ gpuOperations[t] < MaxNesting) => ENABLED Gpu_enter(t)
    /\ \A t \in GpuThreads \ InGpuOperation :
          (gpuAccessLock.count > 0) => ~ENABLED Gpu_enter(t)

\* a surface is inside a nested GPU operation while the capture thread of
\* another window runs and is kept out
C24_Witness ==
    /\ gpuAccessLock.count = MaxNesting
    /\ gpuAccessLock.owner[1] = "surface"
    /\ \E k \in 1..Len(screenCaptureThreads) :
          /\ screenCaptureThreads[k].state = "running"
          /\ screenCaptureThreads[k].window # gpuAccessLock.owner[2]
          /\ ~ENABLED Gpu_enter(<< "capture", screenCaptureThreads[k].window >>)

\* C31: no statement of ResetState changes the completion callback, the
\* toolbar bounding box or the cursor position of CommonState, so the callback
\* CommonState holds is at all times the one of the latest
\* SetToolCompletionEvent, through every session that is started after it.
C31_ResetKeepsCallbackToolbarCursor ==
    /\ [](commonState.sessionCompletedCallback = lastRegistered)
    /\ [][ (pc \in ResetPcs /\ HostStep) =>
            /\ commonState'.sessionCompletedCallback = commonState.sessionCompletedCallback
            /\ commonState'.toolbarBoundingBox = commonState.toolbarBoundingBox
            /\ commonState'.cursorPosSystemSpace = commonState.cursorPosSystemSpace ]_vars

\* the ResetState of StartBoundsTool has returned and the second callback, the
\* toolbar rectangle and the cursor position set before the call are still
\* there for the session to come
C31_Witness ==
    /\ op = "StartBoundsTool"
    /\ pc = "GetMonitors"
    /\ commonState.sessionCompletedCallback # NoCallback
    /\ commonState.sessionCompletedCallback # FirstCallback
    /\ commonState.toolbarBoundingBox.right # 0
    /\ commonState.cursorPosSystemSpace = <<3, 4>>

\* ------------------------------------------- installer: CustomAction.cpp

\* HRESULT and Windows Installer codes the custom actions use
S_OK == 0
E_FAIL == -2147467259
E_ABORT == -2147467260
ERROR_SUCCESS == 0
ERROR_INSTALL_FAILURE == 1603

\* the largest value of a 32-bit long
MaxLong == 2147483647

\* SUCCEEDED(hr): an HRESULT is a signed 32-bit number, negative for failures
SUCCEEDED(hr) == hr >= 0

\* variant: every result counts as success
ErOfSuccess(hr) == ERROR_SUCCESS

\* er = SUCCEEDED(hr) ? ERROR_SUCCESS : ERROR_INSTALL_FAILURE;
ErOf(hr) == IF SUCCEEDED(hr) THEN ERROR_SUCCESS ELSE ERROR_INSTALL_FAILURE

\* a UINT assigned to an HRESULT keeps its 32 bits: values above MaxLong come
\* out negative, the others unchanged
ToHRESULT(er) == IF er > MaxLong THEN (er - MaxLong) - MaxLong - 2 ELSE er

\* the measure tool takes no part in what the installer does
measureToolVars ==
    << hostVars, pollVars, coreVars, settingsFile, ghostVars, dpiScale, frameVars,
       gpuVars >>

\* what may become of one task of the folder: it is deleted, or get_Item,
\* get_Name or DeleteTask fails and the task stays
TaskOutcomes == { "deleted", "itemFails", "nameFails", "deleteFails" }

\* the task collections GetTasks may return
TaskCollections == UNION { [1..n -> TaskOutcomes] : n \in 0..MaxTasks }

\* how the system answers the calls of a custom action
Scenarios(action) ==
    CASE action = "RemoveScheduledTasksCA" ->
            { "createFails", "connectFails", "noFolder", "getTasksFails", "rootFails",
              "folderBusy", "ok" }
      [] action = "UninstallServicesCA" ->
            { "scManagerFails", "openServiceFails", "deleteFails", "removed" }
      [] action = "TerminateProcessesCA" -> { "enumFails", "ok" }
      [] action = "CheckGPOCA" -> { "perUserDisabled", "perUserAllowed", "perMachine" }

CustomActions ==
    { "RemoveScheduledTasksCA", "UninstallServicesCA", "TerminateProcessesCA", "CheckGPOCA" }

\* Windows Installer calls one custom action; the system answers its calls in
\* one of the ways above.
InitInstaller ==
    /\ pc = "idle"
    /\ op = "Core"
    /\ args = NoArgs
    /\ monitors = <<>>
    /\ idx = 1
    /\ mouseCaptureThread = [pc |-> "test", cursorPos |-> <<0, 0>>]
    /\ screenCaptureThreads = <<>>
    /\ stopMouseCaptureThreadSignal = FALSE
    /\ overlayUIStates = <<>>
    /\ measureToolState = InitMeasureToolState
    /\ boundsToolState = NewBoundsToolState(NullPtr)
    /\ commonState = InitCommonState
    /\ settings = DefaultSettings
    /\ settingsFile = DefaultSettings
    /\ invoked = <<>>
    /\ closedUnregistered = FALSE
    /\ lastRegistered = NoCallback
    /\ liveCaptureThreads = 0
    /\ resetSnapshot = NoSnapshot
    /\ dpiScale = NoQuery
    /\ framesAcquired = NoFrames
    /\ frameDrawn = NoFrames
    /\ gpuAccessLock = FreeLock
    /\ gpuOperations = NoOperations
    /\ \E action \in CustomActions, initFails \in BOOLEAN :
         \E scenario \in Scenarios(action) :
           \E tasks \in (IF action = "RemoveScheduledTasksCA"
                           THEN TaskCollections ELSE { <<>> }) :
              customAction =
                 [ NoCustomAction EXCEPT !.action = action, !.pc = "WcaInitialize",
                                         !.initFails = initFails,
                                         !.scenario = scenario, !.tasks = tasks ]

\* hr = WcaInitialize(hInstall, ...);
WcaInitialize(c) ==
    [ c EXCEPT !.initialized = @ + 1,
               !.hr = IF c.initFails THEN E_FAIL ELSE S_OK ]

\* return WcaFinalize(er);
WcaFinalize(c, er) ==
    [ c EXCEPT !.finalized = @ + 1, !.er = er, !.returned = << er >>, !.pc = "done" ]

\* the custom action stands at the statement
At(action, statement) == customAction.action = action /\ customAction.pc = statement

\* ExitOnFailure(hr, ...): on a failed hr go to LExit, else to the next statement
ExitOnFailure(c, next) ==
    [ c EXCEPT !.pc = IF SUCCEEDED(c.hr) THEN next ELSE "LExit" ]

\* ---------------------------------------------------- RemoveScheduledTasksCA

\* hr = WcaInitialize(...); ExitOnFailure(hr, ...);          (lines 553-554)
RemoveScheduledTasks_initialize ==
    /\ At("RemoveScheduledTasksCA", "WcaInitialize")
    /\ customAction' = ExitOnFailure(WcaInitialize(customAction), "CoCreateInstance")
    /\ UNCHANGED measureToolVars

\* a call of the Task Scheduler that ends the action when it fails:
\* CoCreateInstance (562-567), Connect (570-571), GetTasks (586-587),
\* GetFolder of the root (623-624)
RemoveScheduledTasks_call(statement, failing, next) ==
    /\ At("RemoveScheduledTasksCA", statement)
    /\ customAction' =
          ExitOnFailure([ customAction EXCEPT
                            !.hr = IF customAction.scenario = failing
                                     THEN E_FAIL ELSE S_OK ], next)
    /\ UNCHANGED measureToolVars

RemoveScheduledTasks_create ==
    RemoveScheduledTasks_call("CoCreateInstance", "createFails", "Connect")

RemoveScheduledTasks_connect ==
    RemoveScheduledTasks_call("Connect", "connectFails", "GetFolder")

\* hr = pService->GetFolder(L"\\PowerToys", &pTaskFolder); without the folder
\* there is nothing to delete: hr = S_OK; ExitFunction();   (lines 575-582)
RemoveScheduledTasks_getFolder ==
    /\ At("RemoveScheduledTasksCA", "GetFolder")
    /\ customAction' =
          [ customAction EXCEPT
              !.hr = S_OK,
              !.pc = IF customAction.scenario = "noFolder" THEN "LExit" ELSE "GetTasks" ]
    /\ UNCHANGED measureToolVars

\* hr = pTaskFolder->GetTasks(...); ExitOnFailure; get_Count(&numTasks);
\*                                                          (lines 586-589)
RemoveScheduledTasks_getTasks ==
    /\ At("RemoveScheduledTasksCA", "GetTasks")
    /\ customAction' =
          ExitOnFailure([ customAction EXCEPT
                            !.hr = IF customAction.scenario = "getTasksFails"
                                     THEN E_FAIL ELSE S_OK,
                            !.folder = IF customAction.scenario = "getTasksFails"
                                         THEN {}
                                         ELSE 1..Len(customAction.tasks),
                            !.i = 0 ], "loop")
    /\ UNCHANGED measureToolVars

\* one iteration of the loop of lines 590-619: the task is deleted and leaves
\* the folder, or a call fails, the failure is logged and the task stays
RemoveScheduledTasks_deleteTask ==
    /\ At("RemoveScheduledTasksCA", "loop")
    /\ customAction.i < Len(customAction.tasks)
    /\ LET task == customAction.i + 1
           deleted == customAction.tasks[task] = "deleted"
       IN  customAction' =
              [ customAction EXCEPT
                  !.hr = IF deleted THEN S_OK ELSE E_FAIL,
                  !.folder = IF deleted THEN @ \ { task } ELSE @,
                  !.i = task ]
    /\ UNCHANGED measureToolVars

\* hr = pService->GetFolder(L"\\", &pRootFolder); ExitOnFailure;  (lines 623-624)
RemoveScheduledTasks_getRootFolder ==
    /\ At("RemoveScheduledTasksCA", "loop")
    /\ customAction.i >= Len(customAction.tasks)
    /\ customAction' =
          ExitOnFailure([ customAction EXCEPT
                            !.hr = IF customAction.scenario = "rootFails"
                                     THEN E_FAIL ELSE S_OK ], "DeleteFolder")
    /\ UNCHANGED measureToolVars

\* ITaskFolder::DeleteFolder: the Task Scheduler refuses to delete a folder
\* that still holds a task, and may refuse for a reason of its own
DeleteFolder(folder, scenario) ==
    IF folder # {} \/ scenario = "folderBusy" THEN E_FAIL ELSE S_OK

\* hr = pRootFolder->DeleteFolder(L"PowerToys", 0); ExitOnFailure;  (lines 625-629)
RemoveScheduledTasks_deleteFolder ==
    /\ At("RemoveScheduledTasksCA", "DeleteFolder")
    /\ LET hr == DeleteFolder(customAction.folder, customAction.scenario)
       IN  customAction' =
              [ customAction EXCEPT !.hr = hr,
                                    !.folderDeleted = SUCCEEDED(hr),
                                    !.pc = "LExit" ]
    /\ UNCHANGED measureToolVars

\* LExit: the interfaces are released; if (!SUCCEEDED(hr)) the warning is
\* shown                                                     (lines 631-650)
RemoveScheduledTasks_warn ==
    /\ At("RemoveScheduledTasksCA", "LExit")
    /\ customAction' =
          [ customAction EXCEPT
              !.warned = IF SUCCEEDED(customAction.hr) THEN @ ELSE @ + 1,
              !.pc = "return" ]
    /\ UNCHANGED measureToolVars

\* er = SUCCEEDED(hr) ? ...; return WcaFinalize(er);         (lines 652-653)
RemoveScheduledTasks_return ==
    /\ At("RemoveScheduledTasksCA", "return")
    /\ customAction' = WcaFinalize(customAction, ErOf(customAction.hr))
    /\ UNCHANGED measureToolVars

\* ------------------------------------------------------- UninstallServicesCA

\* RemoveWindowsServiceByName: ERROR_INSTALL_FAILURE when the service manager
\* or the service cannot be opened or the service cannot be deleted,
\* ERROR_SUCCESS when the service is deleted                 (lines 205-248)
RemoveWindowsServiceByName(scenario) ==
    IF scenario \in { "scManagerFails", "openServiceFails", "deleteFails" }
      THEN ERROR_INSTALL_FAILURE
      ELSE ERROR_SUCCESS

\* hr = WcaInitialize(...); ExitOnFailure(hr, ...);          (lines 256-258)
UninstallServices_initialize ==
    /\ At("UninstallServicesCA", "WcaInitialize")
    /\ customAction' =
          ExitOnFailure(WcaInitialize(customAction), "RemoveWindowsServiceByName")
    /\ UNCHANGED measureToolVars

\* hr = RemoveWindowsServiceByName(L"PowerToys.MWB.Service");     (line 260)
UninstallServices_remove ==
    /\ At("UninstallServicesCA", "RemoveWindowsServiceByName")
    /\ customAction' =
          [ customAction EXCEPT
              !.hr = ToHRESULT(RemoveWindowsServiceByName(customAction.scenario)),
              !.serviceRemoved = (customAction.scenario = "removed"),
              !.pc = "LExit" ]
    /\ UNCHANGED measureToolVars

\* LExit: er = SUCCEEDED(hr) ? ...; return WcaFinalize(er);  (lines 262-264)
UninstallServices_return ==
    /\ At("UninstallServicesCA", "LExit")
    /\ customAction' = WcaFinalize(customAction, ErOf(customAction.hr))
    /\ UNCHANGED measureToolVars

\* ------------------------------------------------------ TerminateProcessesCA

\* hr = WcaInitialize(hInstall, "TerminateProcessesCA");     (lines 1079-1086)
TerminateProcesses_initialize ==
    /\ At("TerminateProcessesCA", "WcaInitialize")
    /\ customAction' = [ WcaInitialize(customAction) EXCEPT !.pc = "EnumProcesses" ]
    /\ UNCHANGED measureToolVars

\* if (!EnumProcesses(...)) { return 1; }                    (lines 1088-1092)
TerminateProcesses_enumerate ==
    /\ At("TerminateProcessesCA", "EnumProcesses")
    /\ customAction' =
          IF customAction.scenario = "enumFails"
            THEN [ customAction EXCEPT !.returned = << 1 >>, !.pc = "done" ]
            ELSE [ customAction EXCEPT !.pc = "terminate" ]
    /\ UNCHANGED measureToolVars

\* the loop over the processes: windows closed, processes terminated
\*                                                           (lines 1094-1170)
TerminateProcesses_terminate ==
    /\ At("TerminateProcessesCA", "terminate")
    /\ customAction' = [ customAction EXCEPT !.pc = "return" ]
    /\ UNCHANGED measureToolVars

\* er = SUCCEEDED(hr) ? ...; return WcaFinalize(er);         (lines 1172-1173)
TerminateProcesses_return ==
    /\ At("TerminateProcessesCA", "return")
    /\ customAction' = WcaFinalize(customAction, ErOf(customAction.hr))
    /\ UNCHANGED measureToolVars

\* ---------------------------------------------------------------- CheckGPOCA

\* hr = WcaInitialize(...); ExitOnFailure(hr, ...);          (lines 55-58)
CheckGPO_initialize ==
    /\ At("CheckGPOCA", "WcaInitialize")
    /\ customAction' = ExitOnFailure(WcaInitialize(customAction), "InstallScope")
    /\ UNCHANGED measureToolVars

\* a per-user installation that the policy forbids is refused: hr = E_ABORT
\*                                                           (lines 60-72)
CheckGPO_check ==
    /\ At("CheckGPOCA", "InstallScope")
    /\ customAction' =
          [ customAction EXCEPT
              !.hr = IF customAction.scenario = "perUserDisabled" THEN E_ABORT ELSE S_OK,
              !.pc = "LExit" ]
    /\ UNCHANGED measureToolVars

\* LExit: er = SUCCEEDED(hr) ? ...; return WcaFinalize(er);  (lines 74-76)
CheckGPO_return ==
    /\ At("CheckGPOCA", "LExit")
    /\ customAction' = WcaFinalize(customAction, ErOf(customAction.hr))
    /\ UNCHANGED measureToolVars

\* One custom action, from its call by Windows Installer to its return.
NextInstaller ==
    \/ RemoveScheduledTasks_initialize
    \/ RemoveScheduledTasks_create
    \/ RemoveScheduledTasks_connect
    \/ RemoveScheduledTasks_getFolder
    \/ RemoveScheduledTasks_getTasks
    \/ RemoveScheduledTasks_deleteTask
    \/ RemoveScheduledTasks_getRootFolder
    \/ RemoveScheduledTasks_deleteFolder
    \/ RemoveScheduledTasks_warn
    \/ RemoveScheduledTasks_return
    \/ UninstallServices_initialize
    \/ UninstallServices_remove
    \/ UninstallServices_return
    \/ TerminateProcesses_initialize
    \/ TerminateProcesses_enumerate
    \/ TerminateProcesses_terminate
    \/ TerminateProcesses_return
    \/ CheckGPO_initialize
    \/ CheckGPO_check
    \/ CheckGPO_return

SpecInstaller == InitInstaller /\ [][NextInstaller]_vars

\* the tasks of the folder the loop has visited and could not delete
TasksNotDeleted ==
    { j \in 1..customAction.i : customAction.tasks[j] # "deleted" }

\* C32: when RemoveScheduledTasksCA could not delete at least one task of the
\* PowerToys folder, whichever it is, the folder is not deleted, the warning
\* is shown, once, and the action returns ERROR_INSTALL_FAILURE.
C32_FailedTaskKeepsFolderAndWarns ==
    (At("RemoveScheduledTasksCA", "done") /\ TasksNotDeleted # {}) =>
        /\ ~customAction.folderDeleted
        /\ customAction.folder = TasksNotDeleted
        /\ customAction.warned = 1
        /\ customAction.returned = << ERROR_INSTALL_FAILURE >>

\* of MaxTasks tasks the one in the middle could not be deleted and the last
\* one could, so that the loop ended on a success; nothing else failed
C32_Witness ==
    /\ At("RemoveScheduledTasksCA", "done")
    /\ customAction.scenario = "ok"
    /\ Len(customAction.tasks) = MaxTasks
    /\ TasksNotDeleted = { 2 }
    /\ customAction.tasks[2] = "deleteFails"
    /\ customAction.warned = 1

\* C33: UninstallServicesCA returns ERROR_INSTALL_FAILURE whenever
\* RemoveWindowsServiceByName has failed, and ERROR_SUCCESS only when the
\* service was removed.
C33_Original ==
    At("UninstallServicesCA", "done") =>
        /\ (/\ ~customAction.initFails
            /\ RemoveWindowsServiceByName(customAction.scenario) = ERROR_INSTALL_FAILURE)
              => customAction.returned = << ERROR_INSTALL_FAILURE >>
        /\ customAction.returned = << ERROR_SUCCESS >> => customAction.serviceRemoved

\* C34: a custom action that has called WcaInitialize has called WcaFinalize
\* exactly once when it returns, on every path.
C34_Original ==
    (customAction.pc = "done" /\ customAction.initialized > 0)
        => customAction.finalized = 1

====
